---- MODULE Spec2Model ----
(***************************************************************************)
(* Lytiva integration: the MQTT discovery / status dispatch core of        *)
(* custom_components/lytiva.  The shared storage of __init__.py, the paho  *)
(* callback table, the host loop's queue of deferred calls and the shadow  *)
(* objects built by the platform modules are the state; each handler,      *)
(* callback and setup step is one action.                                  *)
(***************************************************************************)
EXTENDS Integers, Sequences, FiniteSets, TLC

(***************************************************************************)
(* Bounds of the model.                                                    *)
(***************************************************************************)
\* messages the broker delivers in one session
MaxMsgs == 2
\* successful connect notifications in one session
MaxConnects == 1

(***************************************************************************)
(* Python values.  A value is a pair <<tag, content>>: None, an int or a   *)
(* str.  "42" and 42 are different values, as in the source.               *)
(***************************************************************************)
None == <<"none", 0>>
I(n) == <<"int", n>>
S(s) == <<"str", s>>
B(b) == <<"bool", b>>
IsInt(x) == x[1] = "int"
IsStr(x) == x[1] = "str"

\* truth value of a Python object: None, 0, "" and False are falsy
Truthy(x) == x # None /\ x # I(0) /\ x # S("") /\ x # B(FALSE)

\* Python's  a or b
Or(a, b) == IF Truthy(a) THEN a ELSE b

Digits == <<"0", "1", "2", "3", "4", "5", "6", "7", "8", "9">>

RECURSIVE Dec(_)
\* decimal digits of a natural number
Dec(n) == IF n < 10 THEN Digits[n + 1] ELSE Dec(n \div 10) \o Digits[(n % 10) + 1]

\* Python's str(x), as a TLA+ string
StrOf(x) == IF x = None THEN "None"
            ELSE IF IsInt(x) THEN (IF x[2] < 0 THEN "-" \o Dec(-x[2]) ELSE Dec(x[2]))
            ELSE x[2]

\* Python's str(x), as a value
Str(x) == S(StrOf(x))

\* integers whose decimal form the model's strings can spell
IntRange == 0..99

\* Python's int(x): the integer, or None when int() raises
PyInt(x) == IF IsInt(x) THEN x
            ELSE IF IsStr(x) /\ \E n \in IntRange : Dec(n) = x[2]
                 THEN I(CHOOSE n \in IntRange : Dec(n) = x[2])
            ELSE None

(***************************************************************************)
(* Insertion-ordered dictionaries: a sequence of <<key, value>> pairs with *)
(* distinct keys.  Assigning to a present key keeps its position.          *)
(***************************************************************************)
DictKeys(d) == {d[i][1] : i \in 1..Len(d)}
DictHas(d, k) == k \in DictKeys(d)
\* d[k], for a key that is present
DictGet(d, k) == d[CHOOSE i \in 1..Len(d) : d[i][1] = k][2]
DictValues(d) == [i \in 1..Len(d) |-> d[i][2]]
DictSet(d, k, v) == IF DictHas(d, k)
                    THEN [i \in 1..Len(d) |-> IF d[i][1] = k THEN <<k, v>> ELSE d[i]]
                    ELSE Append(d, <<k, v>>)

(***************************************************************************)
(* JSON documents.  One record shape serves discovery and status           *)
(* documents; a key that is absent reads as None, as dict.get gives it.    *)
(* A topic is the sequence of its path segments, a nested object a tagged  *)
(* record.                                                                 *)
(***************************************************************************)
T(segs) == <<"topic", segs>>
Obj(r) == <<"obj", r>>

BaseDoc == [unique_id |-> None, uniqueId |-> None, uniqueid |-> None,
            address |-> None, device_class |-> None, name |-> None,
            state_topic |-> None, command_topic |-> None,
            mode_state_topic |-> None, payload_on |-> None, type |-> None,
            dimmer |-> None, fan |-> None, curtain |-> None, switch |-> None,
            dimming |-> None, power |-> None, curtain_level |-> None,
            payload_off |-> None, set_position_topic |-> None,
            set_position_template |-> None, min_mireds |-> None, max_mireds |-> None,
            color_temp_command_topic |-> None, rgb_command_topic |-> None,
            cct |-> None, rgb |-> None, ir_ac |-> None,
            temperature_command_topic |-> None, fan_modes |-> None,
            mode_command_topic |-> None, fan_mode_command_topic |-> None,
            preset_mode_command_topic |-> None, mode_command_template |-> None,
            temperature_command_template |-> None, fan_mode_command_template |-> None,
            preset_mode_command_template |-> None, preset_modes |-> None,
            min_temp |-> None, max_temp |-> None, json |-> TRUE]

\* a payload that json.loads refuses: no key can be read from it
NotJson == [BaseDoc EXCEPT !.json = FALSE]

discovery_prefix == "homeassistant"

\* the per-device status topic of project p, and the group status topic
NodeTopic == <<"LYT", "p", "NODE", "E", "STATUS">>
GroupTopic == <<"LYT", "p", "GROUP", "E", "STATUS">>

\* topic filters the integration adds callbacks for
DiscoveryFilter == <<discovery_prefix, "+", "+", "config">>
KindFilter(kind) == <<discovery_prefix, kind, "+", "config">>
NodeFilter == <<"LYT", "+", "NODE", "E", "STATUS">>
GroupFilter == <<"LYT", "+", "GROUP", "E", "STATUS">>

\* paho's topic match for filters with single-level wildcards
TopicMatches(filter, topic) ==
    /\ Len(filter) = Len(topic)
    /\ \A i \in 1..Len(filter) : filter[i] = "+" \/ filter[i] = topic[i]

\* paho walks its filter trie taking the literal branch before the "+" branch
FilterBefore(f, g, topic) ==
    \E i \in 1..Len(topic) :
        /\ \A j \in 1..(i - 1) : f[j] = g[j]
        /\ f[i] = topic[i]
        /\ g[i] = "+"
        /\ f[i] # g[i]

(***************************************************************************)
(* State.                                                                  *)
(***************************************************************************)
VARIABLES
    setup_pc,               \* position of async_setup_entry of __init__.py
    platforms,              \* platform modules the host has still to set up
    discovered_payloads,    \* shared storage: canonical id -> discovery document
    entities_by_unique_id,  \* shared storage: id -> shadow
    entities_by_address,    \* shared storage: address -> shadow
    devices,                \* shared storage: unique id -> shadow (platform modules)
    cover_callbacks, climate_callbacks, fan_callbacks, light_callbacks, other_callbacks,
    scenes,                 \* the scene platform's list of scenes
    msg_callbacks,          \* paho: topic filter -> callback, one per filter
    connects,               \* successful connect notifications so far
    client_calls,           \* the calls __init__.py has made on the paho client, in order
    status_topic,           \* retained value of homeassistant/status at the broker
    mqtt_thread,            \* message being delivered and the callbacks still to call
    delivered,              \* messages delivered so far
    loop_queue,             \* deferred calls waiting on the host loop, oldest first
    entities,               \* the shadows constructed so far, in order of construction
    host_entities,          \* shadows handed to async_add_entities
    scheduled_calls,        \* <<callback, canonical id>> -> times scheduled
    unmatched_logged,       \* "no matching entity found" lines the router has logged
    published,              \* messages the entity method called last gave to mqtt.publish
    last_call               \* the entity method the host or the transport called last

storage == <<discovered_payloads, entities_by_unique_id, entities_by_address, devices, scenes>>
callback_lists == <<cover_callbacks, climate_callbacks, fan_callbacks, light_callbacks, other_callbacks>>
\* what a direct call of an entity method leaves behind
direct == <<published, last_call>>
vars == <<setup_pc, platforms, storage, callback_lists, msg_callbacks, connects, client_calls, status_topic,
          mqtt_thread, delivered, loop_queue, entities, host_entities, scheduled_calls,
          unmatched_logged, direct>>

\* PLATFORMS of __init__.py
PLATFORMS == <<"light", "cover">>

\* the platform modules of the package that register a discovery callback
\* with __init__.py; the host calls async_setup_entry of each module the
\* entry is forwarded to
CallbackModules == <<"cover", "fan", "climate", "sensor">>

\* no entity method has been called
NoCall == [op |-> "none", ent |-> 0, arg |-> <<>>, raised |-> FALSE]

Idle == [msg |-> [topic |-> <<>>, doc |-> BaseDoc], pending |-> <<>>]

\* the state after hass.data[DOMAIN][entry_id] is filled in, with the
\* platform modules the host is going to set up
InitWith(modules) ==
    /\ setup_pc = "connect"
    /\ platforms = modules
    /\ discovered_payloads = <<>>
    /\ entities_by_unique_id = <<>>
    /\ entities_by_address = <<>>
    /\ devices = <<>>
    /\ cover_callbacks = <<>>
    /\ climate_callbacks = <<>>
    /\ fan_callbacks = <<>>
    /\ light_callbacks = <<>>
    /\ other_callbacks = <<>>
    /\ scenes = <<>>
    /\ msg_callbacks = <<>>
    /\ connects = 0
    /\ client_calls = <<>>
    /\ status_topic = "none"
    /\ mqtt_thread = Idle
    /\ delivered = 0
    /\ loop_queue = <<>>
    /\ entities = <<>>
    /\ host_entities = {}
    /\ scheduled_calls = <<>>
    /\ unmatched_logged = 0
    /\ published = <<>>
    /\ last_call = NoCall

(***************************************************************************)
(* async_setup_entry of __init__.py: connect and start the network loop,   *)
(* forward the platforms, dispatch the stored discovery documents.         *)
(***************************************************************************)
\* a call on the paho client: its name, topic or filter, payload, qos and
\* retain flag, the callback handed over; for a notification from the
\* client, the reason code
ClientCall(call, topic, payload, qos, retain, fn, rc) ==
    [call |-> call, topic |-> topic, payload |-> payload, qos |-> qos, retain |-> retain,
     fn |-> fn, rc |-> rc]

\* "homeassistant/status"
StatusTopic == <<"homeassistant", "status">>

WillSet == ClientCall("will_set", StatusTopic, "offline", 1, TRUE, "", 0)
Connect == ClientCall("connect", <<>>, "", 0, FALSE, "", 0)
LoopStart == ClientCall("loop_start", <<>>, "", 0, FALSE, "", 0)

\* async_setup_entry up to the end of its try: the last will, then
\* mqtt.connect and, when that returns, mqtt.loop_start
SetupCalls(started) ==
    <<WillSet, Connect>> \o (IF started THEN <<LoopStart>> ELSE <<>>)

\* mqtt.connect and mqtt.loop_start succeed: the MQTT thread is running
ConnectOk ==
    /\ setup_pc = "connect"
    /\ setup_pc' = "forward"
    /\ client_calls' = client_calls \o SetupCalls(TRUE)
    /\ UNCHANGED <<direct, platforms, storage, callback_lists, msg_callbacks, connects, status_topic,
                   mqtt_thread, delivered, loop_queue, entities, host_entities,
                   scheduled_calls, unmatched_logged>>

\* mqtt.connect or mqtt.loop_start raises: async_setup_entry returns False
ConnectFails ==
    /\ setup_pc = "connect"
    /\ setup_pc' = "failed"
    /\ \E started \in BOOLEAN : client_calls' = client_calls \o SetupCalls(started)
    /\ UNCHANGED <<direct, platforms, storage, callback_lists, msg_callbacks, connects, status_topic,
                   mqtt_thread, delivered, loop_queue, entities, host_entities,
                   scheduled_calls, unmatched_logged>>

\* the host is setting up platform module p
Forwarding(p) == setup_pc = "forward" /\ platforms # <<>> /\ Head(platforms) = p

\* a slip: the failure of the forwarding taken for a failure of the setup
ForwardRaises_Aborts ==
    /\ setup_pc = "forward"
    /\ platforms # <<>>
    /\ platforms' = <<>>
    /\ setup_pc' = "failed"
    /\ UNCHANGED <<direct, storage, callback_lists, msg_callbacks, connects, client_calls,
                   status_topic, mqtt_thread, delivered, loop_queue, entities, host_entities,
                   scheduled_calls, unmatched_logged>>

\* async_forward_entry_setups raises: the exception is logged, the
\* platforms not set up so far stay that way, the setup goes on
ForwardRaises ==
    /\ setup_pc = "forward"
    /\ platforms # <<>>
    /\ platforms' = <<>>
    /\ UNCHANGED <<direct, setup_pc, storage, callback_lists, msg_callbacks, connects, client_calls,
                   status_topic, mqtt_thread, delivered, loop_queue, entities, host_entities,
                   scheduled_calls, unmatched_logged>>

\* light.async_setup_entry: status and discovery callbacks of the light platform
SetupLight ==
    /\ Forwarding("light")
    /\ platforms' = Tail(platforms)
    /\ msg_callbacks' = DictSet(DictSet(DictSet(msg_callbacks,
                            NodeFilter, <<"on_state", 0>>),
                            GroupFilter, <<"on_state", 0>>),
                            KindFilter("light"), <<"on_light_discovery", 0>>)
    /\ UNCHANGED <<direct, setup_pc, storage, callback_lists, connects, client_calls, status_topic, mqtt_thread,
                   delivered, loop_queue, entities, host_entities, scheduled_calls,
                   unmatched_logged>>

\* cover.async_setup_entry: register add_new_cover; the scan of devices
\* that follows adds nothing (devices holds shadows, not documents)
SetupCover ==
    /\ Forwarding("cover")
    /\ platforms' = Tail(platforms)
    /\ cover_callbacks' = Append(cover_callbacks, "add_new_cover")
    /\ UNCHANGED <<direct, setup_pc, storage, climate_callbacks, fan_callbacks, light_callbacks,
                   other_callbacks, msg_callbacks, connects, client_calls, status_topic, mqtt_thread,
                   delivered, loop_queue, entities, host_entities, scheduled_calls,
                   unmatched_logged>>

\* fan.async_setup_entry: register add_new_fan
SetupFan ==
    /\ Forwarding("fan")
    /\ platforms' = Tail(platforms)
    /\ fan_callbacks' = Append(fan_callbacks, "add_new_fan")
    /\ UNCHANGED <<direct, setup_pc, storage, cover_callbacks, climate_callbacks, light_callbacks,
                   other_callbacks, msg_callbacks, connects, client_calls, status_topic, mqtt_thread,
                   delivered, loop_queue, entities, host_entities, scheduled_calls,
                   unmatched_logged>>

\* climate.async_setup_entry (climate.py): register add_new_climate
SetupClimate ==
    /\ Forwarding("climate")
    /\ platforms' = Tail(platforms)
    /\ climate_callbacks' = Append(climate_callbacks, "add_new_climate")
    /\ UNCHANGED <<direct, setup_pc, storage, cover_callbacks, fan_callbacks, light_callbacks,
                   other_callbacks, msg_callbacks, connects, client_calls, status_topic, mqtt_thread,
                   delivered, loop_queue, entities, host_entities, scheduled_calls,
                   unmatched_logged>>

\* sensor.async_setup_entry (the status-driven climate): the scan of
\* devices comes first and raises on a shadow, so register_callback is
\* registered only while devices is empty
SetupSensor ==
    /\ Forwarding("sensor")
    /\ platforms' = Tail(platforms)
    /\ climate_callbacks' = IF devices = <<>>
                            THEN Append(climate_callbacks, "register_callback")
                            ELSE climate_callbacks
    /\ UNCHANGED <<direct, setup_pc, storage, cover_callbacks, fan_callbacks, light_callbacks,
                   other_callbacks, msg_callbacks, connects, client_calls, status_topic, mqtt_thread,
                   delivered, loop_queue, entities, host_entities, scheduled_calls,
                   unmatched_logged>>

\* switch.async_setup_entry
SetupSwitch ==
    /\ Forwarding("switch")
    /\ platforms' = Tail(platforms)
    /\ msg_callbacks' = DictSet(msg_callbacks, KindFilter("switch"),
            <<"on_switch_discovery", 0>>)
    /\ UNCHANGED <<direct, setup_pc, storage, callback_lists, connects, client_calls, status_topic, mqtt_thread,
                   delivered, loop_queue, entities, host_entities, scheduled_calls,
                   unmatched_logged>>

\* binary_sensor.async_setup_entry
SetupBinarySensor ==
    /\ Forwarding("binary_sensor")
    /\ platforms' = Tail(platforms)
    /\ msg_callbacks' = DictSet(msg_callbacks, <<"homeassistant", "binary_sensor", "+",
            "config">>,
                                <<"on_bs_discovery", 0>>)
    /\ UNCHANGED <<direct, setup_pc, storage, callback_lists, connects, client_calls, status_topic, mqtt_thread,
                   delivered, loop_queue, entities, host_entities, scheduled_calls,
                   unmatched_logged>>

\* scene.async_setup_entry
SetupScene ==
    /\ Forwarding("scene")
    /\ platforms' = Tail(platforms)
    /\ msg_callbacks' = DictSet(msg_callbacks, KindFilter("scene"), <<"on_message", 0>>)
    /\ UNCHANGED <<direct, setup_pc, storage, callback_lists, connects, client_calls, status_topic, mqtt_thread,
                   delivered, loop_queue, entities, host_entities, scheduled_calls,
                   unmatched_logged>>

(***************************************************************************)
(* Shadow constructors (__init__ of the entity classes).                   *)
(***************************************************************************)
\* config.get("min_mireds", 154) and config.get("max_mireds", 370)
MinMireds(doc) == IF doc.min_mireds = None THEN 154 ELSE doc.min_mireds[2]
MaxMireds(doc) == IF doc.max_mireds = None THEN 370 ELSE doc.max_mireds[2]

\* the state a shadow starts with: a light is off at full brightness, white,
\* at min_mireds; a curtain and a fan know no position and no speed; a
\* climate is off at 24 degrees, with the first fan mode and preset "Off"
Shadow(kind, doc, uid, addr) ==
    [kind |-> kind, config |-> doc, unique_id |-> uid, address |-> addr,
     is_on |-> FALSE, brightness |-> 255, position |-> None, percentage |-> None,
     available |-> TRUE,
     min_mireds |-> MinMireds(doc), max_mireds |-> MaxMireds(doc),
     color_temp |-> MinMireds(doc), rgb_color |-> <<255, 255, 255>>,
     hvac_mode |-> "off", target_temp |-> I(24), current_temp |-> None,
     fan_mode |-> "Vlow", preset |-> "Off"]

\* LytivaLight.__init__: the address is an int when int() accepts it
LytivaLight(doc) ==
    LET addr == Or(doc.address, doc.unique_id)
    IN  Shadow("light", doc, Str(doc.unique_id),
               IF PyInt(addr) # None THEN PyInt(addr) ELSE Str(addr))

LytivaCurtain(doc) == Shadow("cover", doc, Str(Or(doc.unique_id, doc.address)), doc.address)

LytivaFan(doc) ==
    Shadow("fan", doc, Str(Or(doc.unique_id, doc.address)), Or(doc.unique_id, doc.address))

\* payload.get("fan_modes", [...]) and payload.get("preset_modes", [...])
\* of climate.py
ClimateFanModes(doc) ==
    IF doc.fan_modes = None THEN <<"low", "medium", "high", "auto">> ELSE doc.fan_modes[2]
ClimatePresetModes(doc) ==
    IF doc.preset_modes = None THEN <<"On", "Off">> ELSE doc.preset_modes[2]

\* climate.py: the id falls back to a name made from the object identity;
\* the fan mode starts as the first supported one
LytivaClimateEntity(doc) ==
    [Shadow("climate", doc, Or(Or(doc.unique_id, doc.address), S("lytiva_climate_id")),
            doc.address)
        EXCEPT !.fan_mode = ClimateFanModes(doc)[1]]

\* sensor.py: the climate shadow driven by central status updates
LytivaStatusClimate(doc) ==
    Shadow("sensor", doc, Or(doc.unique_id, S("lytiva_climate_" \o StrOf(doc.address))),
    doc.address)

LytivaSwitch(doc) == Shadow("switch", doc, S("lytiva_" \o StrOf(doc.unique_id)), None)

LytivaBinarySensor(doc) == Shadow("binary_sensor", doc, S("lytiva_bs_" \o StrOf(doc.unique_id)), None)

\* LytivaScene: the unique_id property prefixes the discovered id
LytivaScene(doc) == Shadow("scene", doc, S("lytiva_scene_" \o StrOf(doc.unique_id)), None)

\* message_callback_add of a shadow's own state topic (curtain, fan, scene)
SubscribeState(table, doc, handler) ==
    IF Truthy(doc.state_topic) THEN DictSet(table, doc.state_topic[2], handler) ELSE table

(***************************************************************************)
(* Deferred calls on the host loop.                                        *)
(***************************************************************************)
Call(op, fn, ent, doc) == [op |-> op, fn |-> fn, ent |-> ent, doc |-> doc]

\* loop.call_soon_threadsafe(cb, payload) for every callback of a list
CallbackCalls(cbs, doc) == [i \in 1..Len(cbs) |-> Call("callback", cbs[i], 0, doc)]

\* one more scheduling of callback cb for canonical id
Bump(f, k) == IF \E i \in 1..Len(f) : f[i][1] = k
              THEN [i \in 1..Len(f) |-> IF f[i][1] = k THEN <<k, f[i][2] + 1>> ELSE f[i]]
              ELSE Append(f, <<k, 1>>)

RECURSIVE BumpAll(_, _, _)
BumpAll(f, cbs, id) == IF cbs = <<>> THEN f
                       ELSE BumpAll(Bump(f, <<Head(cbs), id>>), Tail(cbs), id)

(***************************************************************************)
(* The MQTT thread: connect notifications and message delivery.            *)
(***************************************************************************)
MqttRunning == setup_pc \in {"forward", "done"}

\* paho calls on_connect with this reason code
Notified(reason_code) == ClientCall("on_connect", <<>>, "", 0, FALSE, "", reason_code)

\* client.subscribe(filter); client.message_callback_add(filter, fn)
Subscribed(filter, fn) ==
    <<ClientCall("subscribe", filter, "", 0, FALSE, "", 0),
      ClientCall("message_callback_add", filter, "", 0, FALSE, fn, 0)>>

Online == ClientCall("publish", StatusTopic, "online", 1, TRUE, "", 0)

\* a slip in the order: online published after the subscriptions
OnConnectCalls_OnlineLast ==
    Subscribed(DiscoveryFilter, "on_discovery") \o Subscribed(NodeFilter, "on_status")
        \o Subscribed(GroupFilter, "on_status") \o <<Online>>

\* the calls on_connect makes on the client for reason code 0
OnConnectCalls ==
    <<Online>> \o Subscribed(DiscoveryFilter, "on_discovery")
        \o Subscribed(NodeFilter, "on_status") \o Subscribed(GroupFilter, "on_status")

\* connect notifications, accepted or refused, so far
Notifications == Cardinality({i \in 1..Len(client_calls) : client_calls[i].call = "on_connect"})

\* on_connect: for reason code 0 publish online and add the central
\* callbacks, for any other reason code log the failure
Connected(reason_code, max) ==
    /\ MqttRunning
    /\ mqtt_thread = Idle
    /\ Notifications < max
    /\ IF reason_code = 0
       THEN /\ connects' = connects + 1
            /\ status_topic' = "online"
            /\ client_calls' = client_calls \o <<Notified(0)>> \o OnConnectCalls
            /\ msg_callbacks' = DictSet(DictSet(DictSet(msg_callbacks,
                                    DiscoveryFilter, <<"on_discovery", 0>>),
                                    NodeFilter, <<"on_status", 0>>),
                                    GroupFilter, <<"on_status", 0>>)
       ELSE /\ client_calls' = Append(client_calls, Notified(reason_code))
            /\ UNCHANGED <<connects, status_topic, msg_callbacks>>
    /\ UNCHANGED <<direct, setup_pc, platforms, storage, callback_lists, mqtt_thread, delivered,
                   loop_queue, entities, host_entities, scheduled_calls, unmatched_logged>>

\* the broker accepts the connection
on_connect == Connected(0, MaxConnects)

RECURSIVE SortFilters(_, _)
SortFilters(fs, topic) ==
    IF fs = {} THEN <<>>
    ELSE LET f == CHOOSE f \in fs : \A g \in fs \ {f} : FilterBefore(f, g, topic)
         IN  <<f>> \o SortFilters(fs \ {f}, topic)

\* the callbacks paho calls for a message on topic, in calling order
MatchingCallbacks(topic) ==
    LET fs == {f \in DictKeys(msg_callbacks) : TopicMatches(f, topic)}
        sorted == SortFilters(fs, topic)
    IN  [i \in 1..Len(sorted) |-> DictGet(msg_callbacks, sorted[i])]

\* the broker delivers a message: paho finds the callbacks to call
\* (on_message_fallback, which only logs, when there is none)
Deliver(topic, doc, max) ==
    /\ MqttRunning
    /\ connects >= 1
    /\ mqtt_thread = Idle
    /\ delivered < max
    /\ delivered' = delivered + 1
    /\ mqtt_thread' = IF MatchingCallbacks(topic) = <<>> THEN Idle
                      ELSE [msg |-> [topic |-> topic, doc |-> doc],
                            pending |-> MatchingCallbacks(topic)]
    /\ UNCHANGED <<direct, setup_pc, platforms, storage, callback_lists, msg_callbacks, connects, client_calls,
                   status_topic, loop_queue, entities, host_entities, scheduled_calls,
                   unmatched_logged>>

\* paho is about to call this callback with the message in delivery
Calling(name) == mqtt_thread.pending # <<>> /\ Head(mqtt_thread.pending)[1] = name

\* the callback returns: paho goes on to the next one
Returned == IF Len(mqtt_thread.pending) = 1 THEN Idle
            ELSE [mqtt_thread EXCEPT !.pending = Tail(@)]

(***************************************************************************)
(* on_discovery of __init__.py.                                            *)
(***************************************************************************)
\* unique_id or uniqueId or uniqueid or address
CanonicalValue(doc) == Or(doc.unique_id, Or(doc.uniqueId, Or(doc.uniqueid, doc.address)))

\* the second path segment of the discovery topic
Platform(topic) == IF Len(topic) >= 2 THEN topic[2] ELSE "none"

\* a slip in the elif chain: the fan and climate lists exchanged
CallbacksFor_Exchanged(platform) ==
    IF platform = "cover" THEN cover_callbacks
    ELSE IF platform = "climate" THEN fan_callbacks
    ELSE IF platform = "fan" THEN climate_callbacks
    ELSE IF platform = "light" THEN light_callbacks
    ELSE other_callbacks

\* the callback list on_discovery dispatches to
CallbacksFor(platform) ==
    IF platform = "cover" THEN cover_callbacks
    ELSE IF platform = "climate" THEN climate_callbacks
    ELSE IF platform = "fan" THEN fan_callbacks
    ELSE IF platform = "light" THEN light_callbacks
    ELSE other_callbacks

on_discovery ==
    /\ Calling("on_discovery")
    /\ mqtt_thread' = Returned
    /\ LET doc == mqtt_thread.msg.doc
           uid == CanonicalValue(doc)
           cbs == CallbacksFor(Platform(mqtt_thread.msg.topic))
       IN  IF uid = None
           THEN UNCHANGED <<direct, discovered_payloads, loop_queue, scheduled_calls>>
           ELSE /\ discovered_payloads' = DictSet(discovered_payloads, StrOf(uid), doc)
                /\ loop_queue' = loop_queue \o CallbackCalls(cbs, doc)
                /\ scheduled_calls' = BumpAll(scheduled_calls, cbs, StrOf(uid))
    /\ UNCHANGED <<direct, setup_pc, platforms, entities_by_unique_id, entities_by_address, devices,
                   scenes, callback_lists, msg_callbacks, connects, client_calls, status_topic, delivered,
                   entities, host_entities, unmatched_logged>>

(***************************************************************************)
(* Kind-scoped discovery callbacks of the platform modules.  They run on   *)
(* the MQTT thread.                                                        *)
(***************************************************************************)
\* hass.add_job / call_soon_threadsafe of async_add_entities for shadow e
AddEntities(e) == Call("add_entities", "async_add_entities", e, BaseDoc)

\* light.on_light_discovery
on_light_discovery ==
    /\ Calling("on_light_discovery")
    /\ mqtt_thread' = Returned
    /\ LET doc == mqtt_thread.msg.doc
           uid == Str(doc.unique_id)
       IN  IF doc.unique_id = None \/ DictHas(devices, uid)
           THEN UNCHANGED <<direct, devices, entities, loop_queue>>
           ELSE /\ entities' = Append(entities, LytivaLight(doc))
                /\ devices' = DictSet(devices, uid, Len(entities) + 1)
                /\ loop_queue' = Append(loop_queue, AddEntities(Len(entities) + 1))
    /\ UNCHANGED <<direct, setup_pc, platforms, discovered_payloads, entities_by_unique_id,
                   entities_by_address, scenes, callback_lists, msg_callbacks, connects, client_calls,
                   status_topic, delivered, host_entities, scheduled_calls, unmatched_logged>>

\* switch.on_switch_discovery: devices is keyed by the raw unique_id
on_switch_discovery ==
    /\ Calling("on_switch_discovery")
    /\ mqtt_thread' = Returned
    /\ LET doc == mqtt_thread.msg.doc
       IN  IF ~Truthy(doc.unique_id) \/ DictHas(devices, doc.unique_id)
           THEN UNCHANGED <<direct, devices, entities, loop_queue>>
           ELSE /\ entities' = Append(entities, LytivaSwitch(doc))
                /\ devices' = DictSet(devices, doc.unique_id, Len(entities) + 1)
                /\ loop_queue' = Append(loop_queue, AddEntities(Len(entities) + 1))
    /\ UNCHANGED <<direct, setup_pc, platforms, discovered_payloads, entities_by_unique_id,
                   entities_by_address, scenes, callback_lists, msg_callbacks, connects, client_calls,
                   status_topic, delivered, host_entities, scheduled_calls, unmatched_logged>>

\* binary_sensor.on_bs_discovery: the id is stringified before the test
on_bs_discovery ==
    /\ Calling("on_bs_discovery")
    /\ mqtt_thread' = Returned
    /\ LET doc == mqtt_thread.msg.doc
           uid == Str(doc.unique_id)
       IN  IF ~doc.json \/ ~Truthy(uid) \/ DictHas(devices, uid)
           THEN UNCHANGED <<direct, devices, entities, loop_queue>>
           ELSE /\ entities' = Append(entities, LytivaBinarySensor(doc))
                /\ devices' = DictSet(devices, uid, Len(entities) + 1)
                /\ loop_queue' = Append(loop_queue, AddEntities(Len(entities) + 1))
    /\ UNCHANGED <<direct, setup_pc, platforms, discovered_payloads, entities_by_unique_id,
                   entities_by_address, scenes, callback_lists, msg_callbacks, connects, client_calls,
                   status_topic, delivered, host_entities, scheduled_calls, unmatched_logged>>

\* scene.on_message: the duplicate test compares the discovered id with
\* the unique_id property of the scenes made so far
on_message ==
    /\ Calling("on_message")
    /\ mqtt_thread' = Returned
    /\ LET doc == mqtt_thread.msg.doc
           uid == Str(doc.unique_id)
       IN  IF \/ ~(Truthy(doc.name) /\ Truthy(uid) /\ Truthy(doc.command_topic)
                        /\ Truthy(doc.payload_on))
              \/ \E i \in 1..Len(scenes) : entities[scenes[i]].unique_id = uid
           THEN UNCHANGED <<direct, scenes, entities, loop_queue, msg_callbacks>>
           ELSE /\ entities' = Append(entities, LytivaScene(doc))
                /\ msg_callbacks' = SubscribeState(msg_callbacks, doc,
                                                   <<"_on_state_message", Len(entities) + 1>>)
                /\ scenes' = Append(scenes, Len(entities) + 1)
                /\ loop_queue' = Append(loop_queue, AddEntities(Len(entities) + 1))
    /\ UNCHANGED <<direct, setup_pc, platforms, discovered_payloads, entities_by_unique_id,
                   entities_by_address, devices, callback_lists, connects, client_calls, status_topic,
                   delivered, host_entities, scheduled_calls, unmatched_logged>>

(***************************************************************************)
(* Deferred calls run by the host loop.                                    *)
(***************************************************************************)
Running(op) == loop_queue # <<>> /\ Head(loop_queue).op = op

\* the shadow a registered callback constructs from a document, if any
Constructs(fn, doc) ==
    \/ fn \in {"add_new_cover", "add_new_fan", "register_callback"}
    \/ fn = "add_new_climate" /\ (Truthy(doc.mode_state_topic) \/ doc.device_class = S("climate"))

Construct(fn, doc) ==
    IF fn = "add_new_cover" THEN LytivaCurtain(doc)
    ELSE IF fn = "add_new_fan" THEN LytivaFan(doc)
    ELSE IF fn = "add_new_climate" THEN LytivaClimateEntity(doc)
    ELSE LytivaStatusClimate(doc)

\* the state-topic callback a cover or fan shadow adds when constructed
StateCallback(fn) ==
    IF fn = "add_new_cover" THEN "_on_message" ELSE "_on_state"

\* add_new_cover, add_new_fan, add_new_climate, register_callback:
\* construct the shadow and hand it to async_add_entities
RunCallback ==
    /\ Running("callback")
    /\ loop_queue' = Tail(loop_queue)
    /\ LET fn == Head(loop_queue).fn
           doc == Head(loop_queue).doc
           e == Len(entities) + 1
       IN  IF Constructs(fn, doc)
           THEN /\ entities' = Append(entities, Construct(fn, doc))
                /\ host_entities' = host_entities \cup {e}
                /\ msg_callbacks' = IF fn \in {"add_new_cover", "add_new_fan"}
                                    THEN SubscribeState(msg_callbacks, doc,
                                            <<StateCallback(fn), e>>)
                                    ELSE msg_callbacks
           ELSE UNCHANGED <<direct, entities, host_entities, msg_callbacks>>
    /\ UNCHANGED <<direct, setup_pc, platforms, storage, callback_lists, connects, client_calls, status_topic,
                   mqtt_thread, delivered, scheduled_calls, unmatched_logged>>

\* async_add_entities([shadow]) scheduled by a kind-scoped discovery callback
RunAddEntities ==
    /\ Running("add_entities")
    /\ loop_queue' = Tail(loop_queue)
    /\ host_entities' = host_entities \cup {Head(loop_queue).ent}
    /\ UNCHANGED <<direct, setup_pc, platforms, storage, callback_lists, msg_callbacks, connects, client_calls,
                   status_topic, mqtt_thread, delivered, entities, scheduled_calls,
                   unmatched_logged>>

(***************************************************************************)
(* The dispatch of stored documents that ends async_setup_entry.           *)
(***************************************************************************)
\* device_class values whose lower-cased text contains "cover"
CoverClasses == {S("cover")}

\* the callback list the closing dispatch picks for a stored document
InitialCallbacks(doc) ==
    IF doc.device_class \in CoverClasses /\ cover_callbacks # <<>> THEN cover_callbacks
    ELSE IF doc.state_topic # None \/ doc.command_topic # None \/ doc.unique_id # None
         THEN light_callbacks
    ELSE <<>>

RECURSIVE InitialCalls(_)
InitialCalls(docs) ==
    IF docs = <<>> THEN <<>>
    ELSE CallbackCalls(InitialCallbacks(Head(docs)), Head(docs)) \o InitialCalls(Tail(docs))

RECURSIVE InitialBumps(_, _)
InitialBumps(f, docs) ==
    IF docs = <<>> THEN f
    ELSE InitialBumps(BumpAll(f, InitialCallbacks(Head(docs)),
            StrOf(CanonicalValue(Head(docs)))),
                      Tail(docs))

\* all platforms are set up: schedule callbacks for the documents stored
\* so far, then async_setup_entry returns True
InitialDispatch ==
    /\ setup_pc = "forward"
    /\ platforms = <<>>
    /\ setup_pc' = "done"
    /\ loop_queue' = loop_queue \o InitialCalls(DictValues(discovered_payloads))
    /\ scheduled_calls' = InitialBumps(scheduled_calls, DictValues(discovered_payloads))
    /\ UNCHANGED <<direct, platforms, storage, callback_lists, msg_callbacks, connects, client_calls, status_topic,
                   mqtt_thread, delivered, entities, host_entities, unmatched_logged>>

(***************************************************************************)
(* Status messages: the callbacks on the MQTT thread.                      *)
(***************************************************************************)
\* on_status of __init__.py: hand the message to handle_status_message
on_status ==
    /\ Calling("on_status")
    /\ mqtt_thread' = Returned
    /\ loop_queue' = Append(loop_queue, Call("status", "handle_status_message", 0,
            mqtt_thread.msg.doc))
    /\ UNCHANGED <<direct, setup_pc, platforms, storage, callback_lists, msg_callbacks, connects, client_calls,
                   status_topic, delivered, entities, host_entities, scheduled_calls,
                   unmatched_logged>>

\* the handler put at the head of the loop's queue
on_state_First ==
    /\ Calling("on_state")
    /\ mqtt_thread' = Returned
    /\ loop_queue' = <<Call("status", "handle_state_message", 0, mqtt_thread.msg.doc)>>
                        \o loop_queue
    /\ UNCHANGED <<direct, setup_pc, platforms, storage, callback_lists, msg_callbacks, connects,
                   client_calls, status_topic, delivered, entities, host_entities,
                   scheduled_calls, unmatched_logged>>

\* on_state of light.py: hand the message to handle_state_message
on_state ==
    /\ Calling("on_state")
    /\ mqtt_thread' = Returned
    /\ loop_queue' = Append(loop_queue, Call("status", "handle_state_message", 0,
            mqtt_thread.msg.doc))
    /\ UNCHANGED <<direct, setup_pc, platforms, storage, callback_lists, msg_callbacks, connects, client_calls,
                   status_topic, delivered, entities, host_entities, scheduled_calls,
                   unmatched_logged>>

\* a key of a nested object, None when the object or the key is absent
Sub(obj, key) == IF obj = None THEN None ELSE obj[2][key]

\* a decode that adds the reported speed to the percentage it has
FanOnState_Added(e, doc) ==
    IF doc = NotJson THEN [e EXCEPT !.available = FALSE]
    ELSE IF Str(doc.address) # Str(e.address) THEN e
    ELSE LET speed == PyInt(Sub(doc.fan, "fan_speed"))
             had == IF e.percentage = None THEN 0 ELSE e.percentage[2]
             pct == IF had + speed[2] * 20 > 100 THEN 100 ELSE had + speed[2] * 20
         IN  [e EXCEPT !.percentage = IF speed = None THEN @ ELSE I(pct),
                       !.available = TRUE]

\* LytivaFan._on_state: decode on the MQTT thread; when json.loads raises
\* the handler marks the fan unavailable
FanOnState(e, doc) ==
    IF doc = NotJson THEN [e EXCEPT !.available = FALSE]
    ELSE IF Str(doc.address) # Str(e.address) THEN e
    ELSE LET speed == PyInt(Sub(doc.fan, "fan_speed"))
             pct == IF speed[2] * 20 < 0 THEN 0
                    ELSE IF speed[2] * 20 > 100 THEN 100 ELSE speed[2] * 20
         IN  [e EXCEPT !.percentage = IF speed = None THEN @ ELSE I(pct),
                       !.available = TRUE]

_on_state ==
    /\ Calling("_on_state")
    /\ mqtt_thread' = Returned
    /\ LET e == Head(mqtt_thread.pending)[2]
       IN  entities' = [entities EXCEPT ![e] = FanOnState(@, mqtt_thread.msg.doc)]
    /\ UNCHANGED <<direct, setup_pc, platforms, storage, callback_lists, msg_callbacks, connects, client_calls,
                   status_topic, delivered, loop_queue, host_entities, scheduled_calls,
                   unmatched_logged>>

\* a decode that takes the level of a message for any address
CurtainOnMessage_AnyAddress(e, doc) ==
    IF doc = NotJson \/ doc.address = None THEN e
    ELSE LET level == IF Sub(doc.curtain, "curtain_level") # None
                      THEN Sub(doc.curtain, "curtain_level") ELSE doc.curtain_level
             new_pos == PyInt(level)
         IN  IF level = None \/ new_pos = None \/ new_pos = e.position THEN e
             ELSE [e EXCEPT !.position = new_pos, !.available = TRUE]

\* LytivaCurtain._on_message: decode on the MQTT thread
CurtainOnMessage(e, doc) ==
    IF doc = NotJson \/ doc.address = None \/ Str(doc.address) # Str(e.address) THEN e
    ELSE LET level == IF Sub(doc.curtain, "curtain_level") # None
                      THEN Sub(doc.curtain, "curtain_level") ELSE doc.curtain_level
             new_pos == PyInt(level)
         IN  IF level = None \/ new_pos = None \/ new_pos = e.position THEN e
             ELSE [e EXCEPT !.position = new_pos, !.available = TRUE]

_on_message ==
    /\ Calling("_on_message")
    /\ mqtt_thread' = Returned
    /\ LET e == Head(mqtt_thread.pending)[2]
       IN  entities' = [entities EXCEPT ![e] = CurtainOnMessage(@, mqtt_thread.msg.doc)]
    /\ UNCHANGED <<direct, setup_pc, platforms, storage, callback_lists, msg_callbacks, connects, client_calls,
                   status_topic, delivered, loop_queue, host_entities, scheduled_calls,
                   unmatched_logged>>

\* LytivaScene._on_state_message: marks the scene available
_on_state_message ==
    /\ Calling("_on_state_message")
    /\ mqtt_thread' = Returned
    /\ LET e == Head(mqtt_thread.pending)[2]
       IN  entities' = [entities EXCEPT ![e].available = TRUE]
    /\ UNCHANGED <<direct, setup_pc, platforms, storage, callback_lists, msg_callbacks, connects, client_calls,
                   status_topic, delivered, loop_queue, host_entities, scheduled_calls,
                   unmatched_logged>>

(***************************************************************************)
(* Light decode.                                                           *)
(***************************************************************************)
\* light type detection of LytivaLight.__init__
LightType(doc) ==
    LET t == IF doc.type = None THEN S("dimmer") ELSE doc.type
    IN  IF doc.color_temp_command_topic # None \/ t = S("cct") THEN "cct"
        ELSE IF doc.rgb_command_topic # None \/ t = S("rgb") THEN "rgb"
        ELSE IF t = S("dimmer") THEN "dimmer"
        ELSE "switch"

\* int(x) of a non-negative product divided by 100
Trunc100(n) == n \div 100

\* Python's round(n / d) for n >= 0 and d > 0: halves go to the even side
RoundHalfEven(n, d) ==
    LET q == n \div d
        r == n % d
    IN  IF 2 * r < d THEN q
        ELSE IF 2 * r > d THEN q + 1
        ELSE IF q % 2 = 0 THEN q ELSE q + 1

\* round(max_mireds - ct * (max_mireds - min_mireds) / 100)
MiredsOf(ct, min, max) == RoundHalfEven(max * 100 - ct * (max - min), 100)

\* the cct branch: dimming and color_temperature, each when present
UpdateCct(e, cct) ==
    LET dim == Sub(cct, "dimming")
        ct == Sub(cct, "color_temperature")
        e1 == IF dim = None \/ ~IsInt(dim) THEN e
              ELSE [e EXCEPT !.brightness = Trunc100(dim[2] * 255), !.is_on = dim[2] > 0]
    IN  IF ct = None \/ ~IsInt(ct) THEN e1
        ELSE [e1 EXCEPT !.color_temp = MiredsOf(ct[2], e.min_mireds, e.max_mireds)]

\* rgb.get(channel, 0)
Channel(rgb, c) == IF Sub(rgb, c) = None THEN 0 ELSE Sub(rgb, c)[2]

\* the rgb branch: the three channels, is_on = any(channels)
UpdateRgb(e, rgb) ==
    LET triple == <<Channel(rgb, "r"), Channel(rgb, "g"), Channel(rgb, "b")>>
    IN  [e EXCEPT !.rgb_color = triple,
                  !.is_on = \E i \in 1..3 : triple[i] # 0]

\* LytivaLight._update_from_payload: the branch is chosen by the light's
\* type and, for cct and rgb, by the presence of the sub-document; every
\* other case is the switch branch
UpdateFromPayload(e, doc) ==
    IF LightType(e.config) = "dimmer"
    THEN LET dim == IF doc.dimmer # None THEN Sub(doc.dimmer, "dimming") ELSE doc.dimming
         IN  IF dim = None \/ ~IsInt(dim) THEN e
             ELSE [e EXCEPT !.brightness = Trunc100(dim[2] * 255), !.is_on = dim[2] > 0]
    ELSE IF LightType(e.config) = "cct" /\ doc.cct # None THEN UpdateCct(e, doc.cct)
    ELSE IF LightType(e.config) = "rgb" /\ doc.rgb # None THEN UpdateRgb(e, doc.rgb)
    ELSE LET power == IF Sub(doc.switch, "power") # None THEN Sub(doc.switch, "power")
                      ELSE doc.power
         IN  IF power = None THEN e ELSE [e EXCEPT !.is_on = Truthy(power)]

(***************************************************************************)
(* handle_status_message of __init__.py: the central status router.        *)
(***************************************************************************)
\* attributes the router reads off a shadow: only lights have .address
\* and _update_from_payload
AddressAttr(e) == IF e.kind = "light" THEN e.address ELSE None
HasUpdateFromPayload(e) == e.kind = "light"

\* unique_id or uniqueId or uniqueid of a status document
StatusUnique(doc) == Or(doc.unique_id, Or(doc.uniqueId, doc.uniqueid))

\* first shadow of the id index, in insertion order, whose stringified
\* address or id equals that of the message; 0 when there is none
ScanShadows(address, unique) ==
    LET hit(i) == LET e == entities[entities_by_unique_id[i][2]]
                  IN  \/ AddressAttr(e) # None /\ Str(AddressAttr(e)) = Str(address)
                      \/ Str(e.unique_id) = Str(unique)
    IN  IF \E i \in 1..Len(entities_by_unique_id) : hit(i)
        THEN entities_by_unique_id[CHOOSE i \in 1..Len(entities_by_unique_id) :
                                       hit(i) /\ \A j \in 1..(i - 1) : ~hit(j)][2]
        ELSE 0

\* the resolution without its last step, the scan
ResolveShadow_NoScan(doc) ==
    LET address == doc.address
        unique == StatusUnique(doc)
    IN  IF address # None /\ DictHas(entities_by_address, address)
        THEN DictGet(entities_by_address, address)
        ELSE IF address # None /\ DictHas(entities_by_address, Str(address))
        THEN DictGet(entities_by_address, Str(address))
        ELSE IF Truthy(unique) /\ DictHas(entities_by_unique_id, StrOf(unique))
        THEN DictGet(entities_by_unique_id, StrOf(unique))
        ELSE 0

\* the shadow a status document resolves to, 0 when none
ResolveShadow(doc) ==
    LET address == doc.address
        unique == StatusUnique(doc)
    IN  IF address # None /\ DictHas(entities_by_address, address)
        THEN DictGet(entities_by_address, address)
        ELSE IF address # None /\ DictHas(entities_by_address, Str(address))
        THEN DictGet(entities_by_address, Str(address))
        ELSE IF Truthy(unique) /\ DictHas(entities_by_unique_id, StrOf(unique))
        THEN DictGet(entities_by_unique_id, StrOf(unique))
        ELSE ScanShadows(address, unique)

\* _schedule_entity_update: the coroutine _update_from_payload is put on
\* the loop; a shadow without the method gets nothing
ScheduleEntityUpdate(e, doc) ==
    IF e # 0 /\ HasUpdateFromPayload(entities[e])
    THEN <<Call("update", "_update_from_payload", e, doc)>>
    ELSE <<>>

RunningStatus(fn) == Running("status") /\ Head(loop_queue).fn = fn

handle_status_message ==
    /\ RunningStatus("handle_status_message")
    /\ LET doc == Head(loop_queue).doc
       IN  IF ~doc.json
           THEN loop_queue' = Tail(loop_queue) /\ UNCHANGED unmatched_logged
           ELSE /\ loop_queue' = Tail(loop_queue)
                                    \o ScheduleEntityUpdate(ResolveShadow(doc), doc)
                /\ unmatched_logged' = IF ResolveShadow(doc) = 0 THEN unmatched_logged + 1
                                       ELSE unmatched_logged
    /\ UNCHANGED <<direct, setup_pc, platforms, storage, callback_lists, msg_callbacks, connects, client_calls,
                   status_topic, mqtt_thread, delivered, entities, host_entities,
                   scheduled_calls>>

\* the coroutine _update_from_payload scheduled by the router runs
RunUpdate ==
    /\ Running("update")
    /\ loop_queue' = Tail(loop_queue)
    /\ LET c == Head(loop_queue)
       IN  entities' = [entities EXCEPT ![c.ent] = UpdateFromPayload(@, c.doc)]
    /\ UNCHANGED <<direct, setup_pc, platforms, storage, callback_lists, msg_callbacks, connects, client_calls,
                   status_topic, mqtt_thread, delivered, host_entities, scheduled_calls,
                   unmatched_logged>>

(***************************************************************************)
(* handle_state_message of light.py: the light platform's status handler.  *)
(***************************************************************************)
\* the address test with the integer comparison lost: any light with an
\* integer address takes any integer address
LightMatches_AnyInt(e, address) ==
    /\ e.kind = "light"
    /\ \/ PyInt(address) # None /\ IsInt(e.address)
       \/ Str(e.address) = Str(address)

\* the address test of handle_state_message for one object of devices
LightMatches(e, address) ==
    /\ e.kind = "light"
    /\ \/ PyInt(address) # None /\ IsInt(e.address) /\ e.address = PyInt(address)
       \/ Str(e.address) = Str(address)

\* _update_from_payload meets an exception: a dimmer light with a dimming
\* that is no number (the method catches it itself and changes nothing)
UpdateFails(e, doc) ==
    /\ LightType(e.config) = "dimmer"
    /\ LET dim == IF doc.dimmer # None THEN Sub(doc.dimmer, "dimming") ELSE doc.dimming
       IN  dim # None /\ ~IsInt(dim)

\* the loop over devices given up at the first update that meets an exception
StateUpdated_GivenUp(doc) ==
    LET key(i) == CHOOSE k \in 1..Len(devices) : devices[k][2] = i
        inDevices(i) == \E k \in 1..Len(devices) : devices[k][2] = i
        matches(i) == doc.address # None /\ inDevices(i)
                        /\ LightMatches(entities[i], doc.address)
    IN  [i \in 1..Len(entities) |->
            IF matches(i) /\ \A j \in 1..Len(entities) :
                                (matches(j) /\ key(j) < key(i)) => ~UpdateFails(entities[j], doc)
            THEN UpdateFromPayload(entities[i], doc)
            ELSE entities[i]]

\* the shadows after the loop over devices.values(): each object is tested
\* and updated inside a try of its own
StateUpdated(doc) ==
    LET inDevices(i) == \E k \in 1..Len(devices) : devices[k][2] = i
    IN  [i \in 1..Len(entities) |->
            IF doc.address # None /\ inDevices(i) /\ LightMatches(entities[i], doc.address)
            THEN UpdateFromPayload(entities[i], doc)
            ELSE entities[i]]

handle_state_message ==
    /\ RunningStatus("handle_state_message")
    /\ loop_queue' = Tail(loop_queue)
    /\ entities' = StateUpdated(Head(loop_queue).doc)
    /\ UNCHANGED <<direct, setup_pc, platforms, storage, callback_lists, msg_callbacks, connects, client_calls,
                   status_topic, mqtt_thread, delivered, host_entities, scheduled_calls,
                   unmatched_logged>>

(***************************************************************************)
(* The shadow directory.  No platform module of this revision writes the   *)
(* two indices that handle_status_message reads; the insert is the one     *)
(* the design describes: a shadow handed to the host enters the id index   *)
(* under its id and, when its address is not null, the address index       *)
(* under the address, kept in its own type or stringified.                 *)
(***************************************************************************)
Indexed(e) == \E i \in 1..Len(entities_by_unique_id) : entities_by_unique_id[i][2] = e

RegisterShadow(e, key) ==
    /\ e \in host_entities
    /\ ~Indexed(e)
    /\ key \in {entities[e].address, Str(entities[e].address)}
    /\ entities_by_unique_id' = DictSet(entities_by_unique_id, StrOf(entities[e].unique_id), e)
    /\ entities_by_address' = IF entities[e].address = None THEN entities_by_address
                              ELSE DictSet(entities_by_address, key, e)
    /\ UNCHANGED <<direct, setup_pc, platforms, discovered_payloads, devices, scenes, callback_lists,
                   msg_callbacks, connects, client_calls, status_topic, mqtt_thread, delivered, loop_queue,
                   entities, host_entities, scheduled_calls, unmatched_logged>>

(***************************************************************************)
(* Messages of a session.                                                  *)
(***************************************************************************)
DiscoveryTopic(kind, node) == <<discovery_prefix, kind, node, "config">>

Lamp == [BaseDoc EXCEPT !.unique_id = S("42"), !.name = S("Lamp"),
                        !.command_topic = T(<<"x", "cmd">>), !.state_topic = T(<<"x",
                        "state">>)]
Blind == [BaseDoc EXCEPT !.unique_id = S("42"), !.address = I(42), !.name = S("Blind"),
                         !.device_class = S("cover"), !.command_topic = T(<<"x", "cmd">>),
                         !.state_topic = T(NodeTopic)]
NoId == [BaseDoc EXCEPT !.name = S("Nameless")]

DiscoveryMessages ==
    {<<DiscoveryTopic("light", "42"), Lamp>>,
     <<DiscoveryTopic("light", "42"), Blind>>,
     <<DiscoveryTopic("cover", "42"), Blind>>,
     <<DiscoveryTopic("switch", "42"), Lamp>>,
     <<DiscoveryTopic("light", "0"), NoId>>}

Dimmer(d) == Obj([dimming |-> I(d)])

StatusMessages ==
    {<<NodeTopic, [BaseDoc EXCEPT !.address = I(42), !.dimmer = Dimmer(50)]>>,
     <<NodeTopic, [BaseDoc EXCEPT !.address = S("42"), !.dimmer = Dimmer(0)]>>,
     <<NodeTopic, [BaseDoc EXCEPT !.unique_id = S("42"), !.dimmer = Dimmer(50)]>>,
     <<NodeTopic, [BaseDoc EXCEPT !.address = I(99), !.dimmer = Dimmer(50)]>>,
     <<NodeTopic, [BaseDoc EXCEPT !.address = I(42),
     !.curtain = Obj([curtain_level |-> I(70)])]>>,
     <<GroupTopic, [BaseDoc EXCEPT !.address = I(42), !.dimmer = Dimmer(50)]>>}

Messages == DiscoveryMessages \cup StatusMessages

(***************************************************************************)
(* Specification: the entry forwarded to PLATFORMS (light and cover).      *)
(***************************************************************************)
Init == InitWith(PLATFORMS)

Next ==
    \/ ConnectOk
    \/ ConnectFails
    \/ SetupLight
    \/ SetupCover
    \/ InitialDispatch
    \/ on_connect
    \/ \E m \in Messages : Deliver(m[1], m[2], MaxMsgs)
    \/ on_discovery
    \/ on_light_discovery
    \/ on_status
    \/ on_state
    \/ _on_message
    \/ RunCallback
    \/ RunAddEntities
    \/ handle_status_message
    \/ RunUpdate
    \/ handle_state_message
    \/ \E e \in 1..Len(entities) :
            \E key \in {entities[e].address, Str(entities[e].address)} : RegisterShadow(e, key)

Spec == Init /\ [][Next]_vars

(***************************************************************************)
(* Specification: the entry forwarded to the modules that register a       *)
(* discovery callback; discovery messages of every kind.                   *)
(***************************************************************************)
Fan7 == [BaseDoc EXCEPT !.uniqueId = S("7"), !.name = S("Fan"),
                        !.command_topic = T(<<"x", "cmd">>), !.state_topic = T(NodeTopic)]
Ac == [BaseDoc EXCEPT !.unique_id = I(9), !.address = I(9), !.name = S("Ac"),
                      !.device_class = S("climate")]

\* a thermostat of climate.py: a document with mode_state_topic
Thermostat == [BaseDoc EXCEPT !.unique_id = S("11"), !.name = S("Thermostat"),
                              !.mode_state_topic = T(<<"x", "mode">>)]

DispatchMessages ==
    {<<DiscoveryTopic("cover", "42"), Blind>>,
     <<DiscoveryTopic("climate", "11"), Thermostat>>,
     <<DiscoveryTopic("fan", "7"), Fan7>>,
     <<DiscoveryTopic("climate", "9"), Ac>>,
     <<DiscoveryTopic("climate", "42"), Lamp>>,
     <<DiscoveryTopic("light", "42"), Lamp>>,
     <<DiscoveryTopic("switch", "42"), Lamp>>,
     <<DiscoveryTopic("fan", "0"), NoId>>}

InitDispatch == InitWith(CallbackModules)

NextDispatch ==
    \/ ConnectOk
    \/ ConnectFails
    \/ SetupCover
    \/ SetupFan
    \/ SetupClimate
    \/ SetupSensor
    \/ InitialDispatch
    \/ on_connect
    \/ \E m \in DispatchMessages : Deliver(m[1], m[2], MaxMsgs)
    \/ on_discovery
    \/ RunCallback

SpecDispatch == InitDispatch /\ [][NextDispatch]_vars

(***************************************************************************)
(* Specification: the canonical id.  Discovery documents with every        *)
(* combination of id fields, delivered to on_discovery with the cover      *)
(* platform set up.                                                        *)
(***************************************************************************)
\* discovery messages of one session of this specification
MaxIdMsgs == 1

IdValues == {None, I(0), S(""), S("42")}

IdDocs == {[BaseDoc EXCEPT !.unique_id = a, !.uniqueId = b, !.uniqueid = c, !.address = d] :
              a \in IdValues, b \in IdValues, c \in IdValues, d \in IdValues}

InitIds == InitWith(<<"cover">>)

NextIds ==
    \/ ConnectOk
    \/ ConnectFails
    \/ SetupCover
    \/ InitialDispatch
    \/ on_connect
    \/ \E doc \in IdDocs : Deliver(DiscoveryTopic("cover", "x"), doc, MaxIdMsgs)
    \/ on_discovery
    \/ RunCallback

SpecIds == InitIds /\ [][NextIds]_vars

(***************************************************************************)
(* Commands and decodes of one shadow, called on the shadow itself: the    *)
(* host calls the command methods, the status handlers and the transport   *)
(* call the decode methods.                                                *)
(***************************************************************************)
\* a command document, every key absent
Command == [version |-> None, address |-> None, type |-> None, dimming |-> None,
            color_temperature |-> None, r |-> None, g |-> None, b |-> None,
            power |-> None, fan_speed |-> None]

\* one mqtt.publish(topic, payload)
Publish(topic, payload) == <<[topic |-> topic, payload |-> payload]>>

\* int(x) of a quotient: truncation toward zero
TruncDiv(n, d) == IF n >= 0 THEN n \div d ELSE -((-n) \div d)

\* the dimming rounded to the nearest integer instead of truncated
Dimming_Rounded(brightness) == (2 * brightness * 100 + 255) \div 510

\* int(brightness / 255 * 100); the double arithmetic of the source gives
\* the exact quotient's integer part for every brightness in 0..255
Dimming(brightness) == TruncDiv(brightness * 100, 255)

\* the scale without its inversion
CtScaled_Direct(color_temp, min, max) ==
    IF max = min THEN 50 ELSE TruncDiv((color_temp - min) * 100, max - min)

\* 100 - int((color_temp - min) * 100 / (max - min)), 50 when the division
\* raises
CtScaled(color_temp, min, max) ==
    IF max = min THEN 50 ELSE 100 - TruncDiv((color_temp - min) * 100, max - min)

\* kwargs.get(key, default) of async_turn_on
Kwarg(kwargs, key, default) == IF kwargs[key] = None THEN default ELSE kwargs[key][2]

NoKwargs == [brightness |-> None, color_temp |-> None, rgb_color |-> None]

\* LytivaLight._publish: nothing is sent without a command topic
LightPublish(e, payload) ==
    IF Truthy(e.config.command_topic) THEN Publish(e.config.command_topic, Obj(payload))
    ELSE <<>>

\* the command document of async_turn_on
TurnOnPayload(e, kwargs) ==
    LET base == [Command EXCEPT !.version = S("v1.0"), !.address = e.address]
        t == LightType(e.config)
        brightness == Kwarg(kwargs, "brightness", e.brightness)
        color_temp == Kwarg(kwargs, "color_temp", e.color_temp)
        rgb == Kwarg(kwargs, "rgb_color", e.rgb_color)
    IN  IF t = "dimmer"
        THEN [base EXCEPT !.type = S("dimmer"), !.dimming = I(Dimming(brightness))]
        ELSE IF t = "cct"
        THEN [base EXCEPT !.type = S("cct"), !.dimming = I(Dimming(brightness)),
                          !.color_temperature =
                              I(CtScaled(color_temp, e.min_mireds, e.max_mireds))]
        ELSE IF t = "rgb"
        THEN [base EXCEPT !.type = S("rgb"), !.r = I(rgb[1]), !.g = I(rgb[2]),
                          !.b = I(rgb[3])]
        ELSE [base EXCEPT !.type = S("switch"), !.power = B(TRUE)]

\* the light after async_turn_on
TurnedOn(e, kwargs) ==
    LET t == LightType(e.config)
        brightness == Kwarg(kwargs, "brightness", e.brightness)
        color_temp == Kwarg(kwargs, "color_temp", e.color_temp)
        rgb == Kwarg(kwargs, "rgb_color", e.rgb_color)
    IN  IF t = "dimmer" THEN [e EXCEPT !.brightness = brightness, !.is_on = TRUE]
        ELSE IF t = "cct"
        THEN [e EXCEPT !.brightness = brightness, !.color_temp = color_temp, !.is_on = TRUE]
        ELSE IF t = "rgb" THEN [e EXCEPT !.rgb_color = rgb, !.is_on = TRUE]
        ELSE [e EXCEPT !.is_on = TRUE]

\* the command document of async_turn_off
TurnOffPayload(e) ==
    LET base == [Command EXCEPT !.version = S("v1.0"), !.address = e.address]
        t == LightType(e.config)
    IN  IF t = "dimmer" THEN [base EXCEPT !.type = S("dimmer"), !.dimming = I(0)]
        ELSE IF t = "cct"
        THEN [base EXCEPT !.type = S("cct"), !.dimming = I(0), !.color_temperature = I(0)]
        ELSE IF t = "rgb"
        THEN [base EXCEPT !.type = S("rgb"), !.r = I(0), !.g = I(0), !.b = I(0)]
        ELSE [base EXCEPT !.type = S("switch"), !.power = B(FALSE)]

\* the light after async_turn_off
TurnedOff(e) ==
    LET t == LightType(e.config)
    IN  IF t \in {"dimmer", "cct"} THEN [e EXCEPT !.brightness = 0, !.is_on = FALSE]
        ELSE IF t = "rgb" THEN [e EXCEPT !.rgb_color = <<0, 0, 0>>, !.is_on = FALSE]
        ELSE [e EXCEPT !.is_on = FALSE]

\* what a direct call leaves alone
Elsewhere == <<setup_pc, platforms, storage, callback_lists, msg_callbacks, connects, client_calls,
               status_topic, mqtt_thread, delivered, loop_queue, host_entities,
               scheduled_calls, unmatched_logged>>

\* the fan builds its speed document with int(self._address) outside any
\* try: the call raises for an address int() refuses
FanEncodes(e) == PyInt(e.address) # None

\* the call of a method ends by raising to its caller: the fan's commands
\* that build a document; every other method of the model catches what
\* its body raises
Raises(op, e, arg) ==
    \/ op = "async_set_percentage" /\ ~FanEncodes(e)
    \/ op = "fan.async_turn_on" /\ ~FanEncodes(e)
          /\ (arg # None \/ ~Truthy(e.config.payload_on))
    \/ op = "fan.async_turn_off" /\ ~FanEncodes(e) /\ ~Truthy(e.config.payload_off)

\* a method of shadow i is called with arg: the shadow becomes after, the
\* method gives sent to mqtt.publish
Called(op, i, arg, after, sent) ==
    /\ entities' = [entities EXCEPT ![i] = after]
    /\ published' = sent
    /\ last_call' = [op |-> op, ent |-> i, arg |-> arg, raised |-> Raises(op, entities[i], arg)]
    /\ UNCHANGED Elsewhere

\* LytivaLight.async_turn_on(**kwargs)
async_turn_on(i, kwargs) ==
    /\ entities[i].kind = "light"
    /\ Called("async_turn_on", i, kwargs, TurnedOn(entities[i], kwargs),
              LightPublish(entities[i], TurnOnPayload(entities[i], kwargs)))

\* LytivaLight.async_turn_off()
async_turn_off(i) ==
    /\ entities[i].kind = "light"
    /\ Called("async_turn_off", i, <<>>, TurnedOff(entities[i]),
              LightPublish(entities[i], TurnOffPayload(entities[i])))

\* LytivaLight._update_from_payload(payload), awaited by a status handler
_update_from_payload(i, doc) ==
    /\ entities[i].kind = "light"
    /\ Called("_update_from_payload", i, doc, UpdateFromPayload(entities[i], doc), published)

\* the curtain's _on_message, called by the transport
CurtainReceives(i, doc) ==
    /\ entities[i].kind = "cover"
    /\ Called("_on_message", i, doc, CurtainOnMessage(entities[i], doc), published)

\* LytivaCurtain.is_closed: None while the position is unknown
is_closed(e) == IF e.position # None THEN B(e.position = I(0)) ELSE None

\* a set_position_template: pieces of literal text and occurrences of the
\* placeholder "{{ position }}", in order
Text(s) == <<"text", s>>
Placeholder == <<"placeholder", "{{ position }}">>
Template(segs) == <<"template", segs>>

RECURSIVE Replaced(_, _)
\* template.replace("{{ position }}", text)
Replaced(segs, text) ==
    IF segs = <<>> THEN ""
    ELSE (IF Head(segs) = Placeholder THEN text ELSE Head(segs)[2]) \o Replaced(Tail(segs), text)

RECURSIVE ReplacedFirst(_, _)
\* a replace that stops after the first occurrence
ReplacedFirst(segs, text) ==
    IF segs = <<>> THEN ""
    ELSE IF Head(segs) = Placeholder THEN text \o Replaced(Tail(segs), Placeholder[2])
    ELSE Head(segs)[2] \o ReplacedFirst(Tail(segs), text)

\* what set_cover_position hands to mqtt.publish for a position with a slip:
\* only the first placeholder is replaced
SetPositionSent_First(e, pos) ==
    LET topic == Or(e.config.set_position_topic, e.config.command_topic)
        segs == IF e.config.set_position_template = None THEN <<>>
                ELSE e.config.set_position_template[2]
    IN  IF pos # None /\ Truthy(topic)
        THEN Publish(topic, S(ReplacedFirst(segs, StrOf(pos))))
        ELSE <<>>

\* what set_cover_position hands to mqtt.publish
SetPositionSent(e, pos) ==
    LET topic == Or(e.config.set_position_topic, e.config.command_topic)
        segs == IF e.config.set_position_template = None THEN <<>>
                ELSE e.config.set_position_template[2]
    IN  IF pos # None /\ Truthy(topic)
        THEN Publish(topic, S(Replaced(segs, StrOf(pos))))
        ELSE <<>>

\* LytivaCurtain.set_cover_position(position=pos)
set_cover_position(i, pos) ==
    /\ entities[i].kind = "cover"
    /\ Called("set_cover_position", i, pos, entities[i], SetPositionSent(entities[i], pos))

\* the fan's _on_state, called by the transport
FanReceives(i, doc) ==
    /\ entities[i].kind = "fan"
    /\ Called("_on_state", i, doc, FanOnState(entities[i], doc), published)

\* a slip in the speed of a percentage: the quotient truncated
FanSpeed_Truncated(percentage) ==
    LET s == percentage \div 20
    IN  IF s > 5 THEN 5 ELSE IF s < 0 THEN 0 ELSE s

\* max(0, min(5, round(percentage / 20)))
FanSpeed(percentage) ==
    LET s == RoundHalfEven(percentage, 20)
    IN  IF s > 5 THEN 5 ELSE IF s < 0 THEN 0 ELSE s

\* the fan's speed command; int(self._address) raises for an address that
\* is no number, and publish raises without a topic: nothing is sent
FanCommand(e, speed) ==
    IF ~FanEncodes(e) \/ e.config.command_topic = None THEN <<>>
    ELSE Publish(e.config.command_topic,
                 Obj([Command EXCEPT !.version = S("v1.0"), !.type = S("fan"),
                                     !.address = PyInt(e.address), !.fan_speed = I(speed)]))

\* the fan publishes a preconfigured payload_on or payload_off as it is
FanRaw(e, payload) ==
    IF e.config.command_topic = None THEN <<>> ELSE Publish(e.config.command_topic, payload)

\* LytivaFan.async_set_percentage(percentage)
async_set_percentage(i, percentage) ==
    /\ entities[i].kind = "fan"
    /\ Called("async_set_percentage", i, I(percentage), entities[i],
              FanCommand(entities[i], FanSpeed(percentage)))

\* LytivaFan.async_turn_on(percentage): percentage is None or an int
FanTurnOn(i, percentage) ==
    /\ entities[i].kind = "fan"
    /\ Called("fan.async_turn_on", i, percentage, entities[i],
              IF percentage # None THEN FanCommand(entities[i], FanSpeed(percentage[2]))
              ELSE IF Truthy(entities[i].config.payload_on)
              THEN FanRaw(entities[i], entities[i].config.payload_on)
              ELSE FanCommand(entities[i], 3))

\* LytivaFan.async_turn_off()
FanTurnOff(i) ==
    /\ entities[i].kind = "fan"
    /\ Called("fan.async_turn_off", i, <<>>, entities[i],
              IF Truthy(entities[i].config.payload_off)
              THEN FanRaw(entities[i], entities[i].config.payload_off)
              ELSE FanCommand(entities[i], 0))

\* the keys of HVAC_MAP of sensor.py
HVAC_MAP == {"cool", "heat", "dry", "fan_only", "auto", "off"}

\* the fan speed mapping of _update_from_status
FanModes == <<"Vlow", "Low", "Med", "High", "Top", "Auto">>

\* the fan mode names shifted by one: speed 1 is the first
FanModeOf_OneBased(fan_speed) ==
    IF IsInt(fan_speed) /\ fan_speed[2] \in 1..6 THEN FanModes[fan_speed[2]]
    ELSE FanModes[1]

\* mapping.get(fan_speed, self._fan_modes[0])
FanModeOf(fan_speed) ==
    IF IsInt(fan_speed) /\ fan_speed[2] \in 0..5 THEN FanModes[fan_speed[2] + 1]
    ELSE FanModes[1]

\* float(x) succeeds: x is a number
IsNumber(x) == IsInt(x)

\* LytivaClimateEntity._update_from_status of sensor.py: power, mode,
\* temperature, current_temperature, fan_speed in this order; a float()
\* that raises ends the decode with the earlier fields applied
UpdateFromStatus(e, doc) ==
    LET ir(key) == Sub(doc.ir_ac, key)
        mode == IF ir("mode") = S("fan") THEN S("fan_only") ELSE ir("mode")
        e1 == IF ir("power") = None THEN e
              ELSE [e EXCEPT !.preset = IF Truthy(ir("power")) THEN "On" ELSE "Off",
                             !.available = TRUE]
        e2 == IF IsStr(mode) /\ mode[2] \in HVAC_MAP
              THEN [e1 EXCEPT !.hvac_mode = mode[2], !.available = TRUE]
              ELSE e1
        e3 == IF ir("temperature") = None THEN e2
              ELSE [e2 EXCEPT !.target_temp = ir("temperature"), !.available = TRUE]
        e4 == IF ir("current_temperature") = None THEN e3
              ELSE [e3 EXCEPT !.current_temp = ir("current_temperature"), !.available = TRUE]
        e5 == IF ir("fan_speed") = None THEN e4
              ELSE [e4 EXCEPT !.fan_mode = FanModeOf(ir("fan_speed")), !.available = TRUE]
    IN  IF doc.address # e.address THEN e
        ELSE IF ir("temperature") # None /\ ~IsNumber(ir("temperature")) THEN e2
        ELSE IF ir("current_temperature") # None /\ ~IsNumber(ir("current_temperature"))
        THEN e3
        ELSE e5

\* _update_from_status(status_payload) of the status-driven climate
_update_from_status(i, doc) ==
    /\ entities[i].kind = "sensor"
    /\ Called("_update_from_status", i, doc, UpdateFromStatus(entities[i], doc), published)

(***************************************************************************)
(* Specification: one shadow of each kind, its commands and its decodes.   *)
(***************************************************************************)
CctLamp == [Lamp EXCEPT !.type = S("cct")]
CctNarrow == [Lamp EXCEPT !.color_temp_command_topic = T(<<"x", "ct">>),
                          !.min_mireds = I(150), !.max_mireds = I(200)]
RgbLamp == [Lamp EXCEPT !.type = S("rgb")]
SwitchLamp == [Lamp EXCEPT !.type = S("switch")]
Blind70 == [Blind EXCEPT !.set_position_topic = T(<<"x", "pos">>),
                         !.set_position_template =
                             Template(<<Text("{\"position\":"), Placeholder,
                                        Text(",\"target\":"), Placeholder, Text("}")>>)]
BlindPlain == [Blind EXCEPT !.set_position_template = Template(<<Text("go "), Placeholder>>)]
FanById == [BaseDoc EXCEPT !.unique_id = S("7"), !.name = S("Fan"),
                           !.command_topic = T(<<"x", "cmd">>), !.state_topic = T(NodeTopic)]

\* a fan whose unique id is no number
FanNamed == [FanById EXCEPT !.unique_id = S("hall")]

InitialShadows ==
    {LytivaLight(Lamp), LytivaLight(CctLamp), LytivaLight(CctNarrow), LytivaLight(RgbLamp),
     LytivaLight(SwitchLamp), LytivaCurtain(Blind70), LytivaCurtain(BlindPlain),
     LytivaFan(FanById), LytivaFan(Fan7), LytivaFan(FanNamed), LytivaStatusClimate(Ac)}

\* brightness values the host commands, dimming values and curtain levels
\* the devices report
Brightnesses == {0, 1, 2, 3, 50, 51, 127, 128, 129, 254, 255}
Dimmings == {0, 1, 2, 49, 50, 51, 99, 100}
Levels == {0, 1, 30, 70, 99, 100}

\* what the host passes to async_turn_on of a light
KwargsFor(e) ==
    LET t == LightType(e.config)
        mid == (e.min_mireds + e.max_mireds) \div 2
        mireds == {e.min_mireds, e.min_mireds + 1, mid, e.max_mireds - 1, e.max_mireds}
        channels == {0, 7, 255}
    IN  IF t = "dimmer"
        THEN {NoKwargs} \cup {[NoKwargs EXCEPT !.brightness = I(b)] : b \in Brightnesses}
        ELSE IF t = "cct"
        THEN {[NoKwargs EXCEPT !.brightness = b, !.color_temp = m] :
                 b \in {None, I(0), I(128), I(255)},
                 m \in {None} \cup {I(x) : x \in mireds}}
        ELSE IF t = "rgb"
        THEN {NoKwargs} \cup {[NoKwargs EXCEPT !.rgb_color = <<"rgb", <<r, g, b>>>>] :
                                  r \in channels, g \in channels, b \in channels}
        ELSE {NoKwargs}

Cct(dimming, color_temperature) ==
    Obj([dimming |-> dimming, color_temperature |-> color_temperature])
Rgb(r, g, b) == Obj([r |-> r, g |-> g, b |-> b])
Switch(power) == Obj([power |-> power])

\* status documents a handler passes to _update_from_payload of a light
LightDocs(e) ==
    LET t == LightType(e.config)
        to == [BaseDoc EXCEPT !.address = e.address]
    IN  IF t = "dimmer"
        THEN {[to EXCEPT !.dimmer = Dimmer(d)] : d \in Dimmings}
             \cup {[to EXCEPT !.dimming = I(30)], [to EXCEPT !.power = B(TRUE)]}
        ELSE IF t = "cct"
        THEN {[to EXCEPT !.cct = Cct(d, ct)] :
                 d \in {None, I(0), I(50), I(100)},
                 ct \in {None, I(0), I(1), I(50), I(99), I(100)}}
             \cup {[to EXCEPT !.power = B(FALSE)], [to EXCEPT !.dimmer = Dimmer(50)]}
        ELSE IF t = "rgb"
        THEN {[to EXCEPT !.rgb = Rgb(r, g, b)] :
                 r \in {None, I(0), I(255)}, g \in {None, I(0), I(255)},
                 b \in {None, I(0), I(255)}}
             \cup {[to EXCEPT !.power = B(FALSE)]}
        ELSE {[to EXCEPT !.switch = Switch(B(TRUE))], [to EXCEPT !.switch = Switch(B(FALSE))],
              [to EXCEPT !.power = I(1)], [to EXCEPT !.power = I(0)],
              [to EXCEPT !.dimmer = Dimmer(50)]}

Curtain(level) == Obj([curtain_level |-> level])

\* status documents the transport passes to a curtain
CurtainDocs ==
    {[BaseDoc EXCEPT !.address = I(42), !.curtain = Curtain(l)] :
        l \in {None} \cup {I(n) : n \in Levels}}
    \cup {[BaseDoc EXCEPT !.address = a, !.curtain = Curtain(l)] :
              a \in {S("42"), I(43), None}, l \in {I(0), I(70)}}
    \cup {[BaseDoc EXCEPT !.address = I(42), !.curtain_level = I(30)],
          [BaseDoc EXCEPT !.address = I(42), !.dimmer = Dimmer(50)],
          NotJson}

FanStatus(fan_speed) == Obj([fan_speed |-> fan_speed])

\* status documents the transport passes to a fan
FanDocs ==
    {[BaseDoc EXCEPT !.address = a, !.fan = FanStatus(s)] :
        a \in {S("7"), I(7), I(8), None},
        s \in {None, S("3")} \cup {I(n) : n \in 0..7}}
    \cup {NotJson}

IrAc(power, mode, temperature, current_temperature, fan_speed) ==
    Obj([power |-> power, mode |-> mode, temperature |-> temperature,
         current_temperature |-> current_temperature, fan_speed |-> fan_speed])

ModeStrings == {"cool", "heat", "dry", "auto", "off", "fan", "fan_only", "eco"}

\* status documents for the status-driven climate: one field each, all
\* fields together with temperatures that float() takes or refuses, and
\* documents for another address
ClimateDocs ==
    LET to == [BaseDoc EXCEPT !.address = I(9)]
    IN  {[to EXCEPT !.ir_ac = IrAc(p, None, None, None, None)] : p \in {B(TRUE), B(FALSE)}}
        \cup {[to EXCEPT !.ir_ac = IrAc(None, S(m), None, None, None)] : m \in ModeStrings}
        \cup {[to EXCEPT !.ir_ac = IrAc(None, None, None, None, s)] :
                  s \in {I(n) : n \in 0..6}}
        \cup {[to EXCEPT !.ir_ac = IrAc(B(TRUE), S("cool"), t, c, I(2))] :
                  t \in {None, I(21), S("warm")}, c \in {None, I(20)}}
        \cup {[to EXCEPT !.dimmer = Dimmer(50)]}
        \cup {[BaseDoc EXCEPT !.address = a,
                              !.ir_ac = IrAc(B(TRUE), S("cool"), None, None, I(2))] :
                  a \in {S("9"), I(8), None}}

\* one shadow of the set, alone, nothing published
OneShadow(shadows) ==
    /\ setup_pc = "done"
    /\ platforms = <<>>
    /\ discovered_payloads = <<>>
    /\ entities_by_unique_id = <<>>
    /\ entities_by_address = <<>>
    /\ devices = <<>>
    /\ cover_callbacks = <<>>
    /\ climate_callbacks = <<>>
    /\ fan_callbacks = <<>>
    /\ light_callbacks = <<>>
    /\ other_callbacks = <<>>
    /\ scenes = <<>>
    /\ msg_callbacks = <<>>
    /\ connects = 0
    /\ client_calls = <<>>
    /\ status_topic = "none"
    /\ mqtt_thread = Idle
    /\ delivered = 0
    /\ loop_queue = <<>>
    /\ \E e \in shadows : entities = <<e>>
    /\ host_entities = {1}
    /\ scheduled_calls = <<>>
    /\ unmatched_logged = 0
    /\ published = <<>>
    /\ last_call = NoCall

InitShadows == OneShadow(InitialShadows)

NextShadows ==
    \/ \E k \in KwargsFor(entities[1]) : async_turn_on(1, k)
    \/ async_turn_off(1)
    \/ \E doc \in LightDocs(entities[1]) : _update_from_payload(1, doc)
    \/ \E doc \in CurtainDocs : CurtainReceives(1, doc)
    \/ \E pos \in {None, I(0), I(70), I(100)} : set_cover_position(1, pos)
    \/ \E doc \in FanDocs : FanReceives(1, doc)
    \/ \E p \in 0..100 : async_set_percentage(1, p)
    \/ \E p \in {None, I(0), I(50), I(100)} : FanTurnOn(1, p)
    \/ FanTurnOff(1)
    \/ \E doc \in ClimateDocs : _update_from_status(1, doc)

SpecShadows == InitShadows /\ [][NextShadows]_vars

(***************************************************************************)
(* Steps, as the properties below see them.                                *)
(***************************************************************************)
\* the host loop runs the oldest deferred call
LoopStep == /\ loop_queue # <<>>
            /\ Len(loop_queue') <= Len(loop_queue)
            /\ loop_queue' # loop_queue

\* paho calls the named callback with the message in delivery
CallbackStep(name) == Calling(name) /\ mqtt_thread' # mqtt_thread

\* the canonical id of the discovery document a shadow was built from
ShadowId(e) == StrOf(CanonicalValue(e.config))

\* shadows of one kind built for canonical id
ShadowsFor(kind, id) ==
    {i \in 1..Len(entities) : entities[i].kind = kind /\ ShadowId(entities[i]) = id}

\* the deferred calls a step of the MQTT thread has added to the queue
AddedByMqtt == SubSeq(loop_queue', Len(loop_queue) + 1, Len(loop_queue'))

\* the deferred calls the call run by a step of the loop has added
AddedByLoop == SubSeq(loop_queue', Len(loop_queue), Len(loop_queue'))

(***************************************************************************)
(* Discovery.                                                              *)
(***************************************************************************)
\* C1: whatever discovery messages have been handled, no canonical id has
\* more than one shadow of a kind.
C1_OneShadowPerId ==
    \A i, j \in 1..Len(entities) :
        (entities[i].kind = entities[j].kind /\ ShadowId(entities[i]) = ShadowId(entities[j]))
            => i = j

\* C2: when a kind's add-callback runs for a document whose id already has
\* a shadow of that kind, it constructs nothing.
C2_SecondCallbackCreatesNothing ==
    [][(LoopStep /\ Head(loop_queue).op = "callback"
          /\ \E i \in 1..Len(entities) :
                /\ entities[i].kind = Construct(Head(loop_queue).fn, Head(loop_queue).doc).kind
                /\ ShadowId(entities[i]) = StrOf(CanonicalValue(Head(loop_queue).doc)))
        => entities' = entities]_vars

\* C3: over the whole session no registered callback is scheduled more
\* than once for one canonical id, the live dispatch of on_discovery and
\* the closing dispatch of async_setup_entry counted together.
C3_CallbackOncePerId ==
    \A i \in 1..Len(scheduled_calls) : scheduled_calls[i][2] <= 1

\* C4: a document stored in discovered_payloads is never replaced: the
\* first document stored under a canonical id stays.
C4_FirstWriterWins ==
    [][\A k \in DictKeys(discovered_payloads) :
          DictHas(discovered_payloads', k)
              /\ DictGet(discovered_payloads', k) = DictGet(discovered_payloads, k)]_vars

\* the first of unique_id, uniqueId, uniqueid, address that is not null
FirstNonNull(doc) ==
    IF doc.unique_id # None THEN doc.unique_id
    ELSE IF doc.uniqueId # None THEN doc.uniqueId
    ELSE IF doc.uniqueid # None THEN doc.uniqueid
    ELSE doc.address

\* C5: on_discovery stores the document under the string form of the
\* first id field that is not null, a 0 or an empty string included, and
\* drops a document whose four id fields are all null, scheduling nothing.
C5_FirstNonNullId ==
    [][CallbackStep("on_discovery") =>
        LET doc == mqtt_thread.msg.doc
            v == FirstNonNull(doc)
        IN  IF v = None
            THEN discovered_payloads' = discovered_payloads /\ AddedByMqtt = <<>>
            ELSE /\ DictHas(discovered_payloads', StrOf(v))
                 /\ DictGet(discovered_payloads', StrOf(v)) = doc]_vars

\* C6: for a discovery message with a canonical id, on_discovery
\* schedules every callback of one list, once each and with the document:
\* the list named by the second topic segment when that is cover,
\* climate, fan or light, the other list otherwise; nothing else.
C6_DispatchOneList ==
    [][(CallbackStep("on_discovery") /\ CanonicalValue(mqtt_thread.msg.doc) # None) =>
        LET doc == mqtt_thread.msg.doc
            seg == mqtt_thread.msg.topic[2]
            chosen == CASE seg = "cover" -> cover_callbacks
                        [] seg = "climate" -> climate_callbacks
                        [] seg = "fan" -> fan_callbacks
                        [] seg = "light" -> light_callbacks
                        [] OTHER -> other_callbacks
        IN  /\ Len(AddedByMqtt) = Len(chosen)
            /\ \A i \in 1..Len(chosen) :
                  AddedByMqtt[i] = [op |-> "callback", fn |-> chosen[i], ent |-> 0,
                  doc |-> doc]]_vars

\* both callbacks of the climate list are waiting with the same document
C6_Witness ==
    \E i \in 1..(Len(loop_queue) - 1) :
        /\ loop_queue[i].op = "callback" /\ loop_queue[i].fn = "add_new_climate"
        /\ loop_queue[i + 1].op = "callback" /\ loop_queue[i + 1].fn = "register_callback"
        /\ loop_queue[i].doc = loop_queue[i + 1].doc

(***************************************************************************)
(* Status.                                                                 *)
(***************************************************************************)
\* the loop runs the router on the status document at the head of its queue
RouterStep == LoopStep /\ Head(loop_queue).op = "status"
                       /\ Head(loop_queue).fn = "handle_status_message"

\* the loop runs the light platform's handler on a status document
LightHandlerStep == LoopStep /\ Head(loop_queue).op = "status"
                             /\ Head(loop_queue).fn = "handle_state_message"

\* the shadows some entry of the id index points at, in index order
Known == [i \in 1..Len(entities_by_unique_id) |-> entities_by_unique_id[i][2]]

\* the first of a sequence of candidates that is a shadow, 0 when none is
RECURSIVE FirstFound(_)
FirstFound(cands) ==
    IF cands = <<>> THEN 0
    ELSE IF Head(cands) # 0 THEN Head(cands)
    ELSE FirstFound(Tail(cands))

\* the shadow each of the four steps finds for a status document (of the
\* shadows only a light carries its address under the name the scan
\* reads), 0 when
\* the step finds none
ByNativeAddress(doc) ==
    IF doc.address # None /\ \E i \in 1..Len(entities_by_address) :
                                 entities_by_address[i][1] = doc.address
    THEN entities_by_address[CHOOSE i \in 1..Len(entities_by_address) :
                                  entities_by_address[i][1] = doc.address][2]
    ELSE 0

ByStringAddress(doc) ==
    IF doc.address # None /\ \E i \in 1..Len(entities_by_address) :
                                 entities_by_address[i][1] = S(StrOf(doc.address))
    THEN entities_by_address[CHOOSE i \in 1..Len(entities_by_address) :
                                  entities_by_address[i][1] = S(StrOf(doc.address))][2]
    ELSE 0

ByUniqueId(doc) ==
    LET u == IF Truthy(doc.unique_id) THEN doc.unique_id
             ELSE IF Truthy(doc.uniqueId) THEN doc.uniqueId ELSE doc.uniqueid
    IN  IF Truthy(u) /\ \E i \in 1..Len(entities_by_unique_id) :
                            entities_by_unique_id[i][1] = StrOf(u)
        THEN entities_by_unique_id[CHOOSE i \in 1..Len(entities_by_unique_id) :
                                       entities_by_unique_id[i][1] = StrOf(u)][2]
        ELSE 0

ByScan(doc) ==
    LET u == IF Truthy(doc.unique_id) THEN doc.unique_id
             ELSE IF Truthy(doc.uniqueId) THEN doc.uniqueId ELSE doc.uniqueid
        same(e) == \/ /\ entities[e].kind = "light"
                      /\ entities[e].address # None
                      /\ StrOf(entities[e].address) = StrOf(doc.address)
                   \/ StrOf(entities[e].unique_id) = StrOf(u)
    IN  FirstFound([i \in 1..Len(Known) |-> IF same(Known[i]) THEN Known[i] ELSE 0])

\* C7: the router schedules at most one update for a status document, on
\* the shadow the first matching step finds (address index under the
\* address as it came, address index under its string form, id index under
\* the document's unique id, scan of the known shadows), with the whole
\* document; a shadow that decodes status documents does get the update.
C7_FirstMatchingStep ==
    [][RouterStep =>
        LET doc == Head(loop_queue).doc
            found == FirstFound(<<ByNativeAddress(doc), ByStringAddress(doc),
                                  ByUniqueId(doc), ByScan(doc)>>)
            update == [op |-> "update", fn |-> "_update_from_payload",
                       ent |-> found, doc |-> doc]
        IN  /\ Len(AddedByLoop) <= 1
            /\ AddedByLoop # <<>> => found # 0 /\ AddedByLoop = <<update>>
            /\ (found # 0 /\ entities[found].kind = "light") => AddedByLoop = <<update>>
            /\ entities' = entities]_vars

\* an update found by the scan alone is waiting: the document's address is
\* a string, the address index holds the shadow under the integer
C7_Witness ==
    \E i \in 1..Len(loop_queue) :
        /\ loop_queue[i].op = "update"
        /\ loop_queue[i].doc.address = S("42")
        /\ ~DictHas(entities_by_address, S("42"))
        /\ DictHas(entities_by_address, I(42))

\* C8: a status document without an address is dropped by the router and by
\* the light platform's handler: no update is scheduled, no shadow changes.
C8_NoAddressDropped ==
    [][((RouterStep \/ LightHandlerStep) /\ Head(loop_queue).doc.address = None) =>
        (AddedByLoop = <<>> /\ entities' = entities)]_vars

\* no shadow has the address or the unique id of a status document
MatchesNone(doc) ==
    /\ doc.address # None
    /\ \A i \in 1..Len(entities) :
          /\ StrOf(entities[i].address) # StrOf(doc.address)
          /\ ~(IsInt(entities[i].address) /\ PyInt(doc.address) = entities[i].address)
          /\ StrOf(entities[i].unique_id) # StrOf(StatusUnique(doc))
          /\ ShadowId(entities[i]) # StrOf(StatusUnique(doc))

\* C9: handling a status document that matches no shadow leaves the two
\* indices, the stored discovery documents and every shadow as they were,
\* and schedules nothing.
C9_UnmatchedDropped ==
    [][/\ ((RouterStep \/ LightHandlerStep) /\ MatchesNone(Head(loop_queue).doc)) =>
            /\ AddedByLoop = <<>>
            /\ UNCHANGED <<entities_by_address, entities_by_unique_id,
                           discovered_payloads, entities>>
       /\ (CallbackStep("_on_message") /\ MatchesNone(mqtt_thread.msg.doc)) =>
            UNCHANGED <<entities_by_address, entities_by_unique_id,
                        discovered_payloads, entities, loop_queue>>]_vars

\* the router has dropped a status document while the directory holds a
\* shadow in both indices
C9_Witness ==
    /\ unmatched_logged >= 1
    /\ entities_by_unique_id # <<>>
    /\ entities_by_address # <<>>
    /\ \A i \in 1..Len(entities) : entities[i].brightness = 255 /\ ~entities[i].is_on

\* C10: every shadow built from a discovery document is in the id index
\* under the document's canonical id and, when it has an address, in the
\* address index.
C10_ShadowsIndexed ==
    \A e \in 1..Len(entities) :
        /\ DictHas(entities_by_unique_id, ShadowId(entities[e]))
        /\ DictGet(entities_by_unique_id, ShadowId(entities[e])) = e
        /\ entities[e].address # None =>
              \E i \in 1..Len(entities_by_address) : entities_by_address[i][2] = e
(***************************************************************************)
(* Decode and encode of the shadows.                                       *)
(***************************************************************************)
\* the dimmer light discovered with unique_id "42", 0 when there is none
Light42 ==
    IF \E i \in 1..Len(entities) :
          /\ entities[i].kind = "light"
          /\ entities[i].config.unique_id = S("42")
          /\ LightType(entities[i].config) = "dimmer"
    THEN CHOOSE i \in 1..Len(entities) :
          /\ entities[i].kind = "light"
          /\ entities[i].config.unique_id = S("42")
          /\ LightType(entities[i].config) = "dimmer"
    ELSE 0

\* a status document with address 42 (integer) and dimmer.dimming an integer
Dimming42(doc) ==
    /\ doc.address = I(42)
    /\ doc.dimmer # None
    /\ doc.dimmer[2].dimming[1] = "int"

\* C11: once the dimmer light "42" is discovered and with the host (so the
\* status arrived after the discovery), a status document with address 42
\* and dimmer.dimming = d that reaches the router is scheduled
\* for that light, and handling it (in the light platform's handler or in
\* the scheduled update) sets brightness to floor(d * 255 / 100) and is_on
\* to d > 0.
C11_StatusReachesLight ==
    [][(LoopStep /\ Light42 \in host_entities /\ Dimming42(Head(loop_queue).doc)) =>
        LET c == Head(loop_queue)
            d == c.doc.dimmer[2].dimming[2]
            decoded == /\ entities'[Light42].brightness = (d * 255) \div 100
                       /\ entities'[Light42].is_on = (d > 0)
        IN  /\ RouterStep =>
                  AddedByLoop = <<[op |-> "update", fn |-> "_update_from_payload",
                                   ent |-> Light42, doc |-> c.doc]>>
            /\ LightHandlerStep => decoded
            /\ (c.op = "update" /\ c.ent = Light42) => decoded]_vars

\* the shadow of a specification that drives one shadow, and what a step
\* makes of it
TheShadow == entities[1]
TheShadowAfter == entities'[1]

\* the step is a call of the named method of the shadow
Calls(op) == last_call'.op = op /\ <<entities, direct>>' # <<entities, direct>>

\* C12: for every kind of shadow, a status document decoded twice leaves
\* the shadow as decoding it once does, whatever state the shadow is in.
C12_DecodeIdempotent ==
    LET e == TheShadow
    IN  /\ e.kind = "light" =>
              \A doc \in LightDocs(e) :
                  UpdateFromPayload(UpdateFromPayload(e, doc), doc) = UpdateFromPayload(e, doc)
        /\ e.kind = "cover" =>
              \A doc \in CurtainDocs :
                  CurtainOnMessage(CurtainOnMessage(e, doc), doc) = CurtainOnMessage(e, doc)
        /\ e.kind = "fan" =>
              \A doc \in FanDocs :
                  FanOnState(FanOnState(e, doc), doc) = FanOnState(e, doc)
        /\ e.kind = "sensor" =>
              \A doc \in ClimateDocs :
                  UpdateFromStatus(UpdateFromStatus(e, doc), doc) = UpdateFromStatus(e, doc)

\* a fan that has decoded speed 3 from one message decodes it again
C12_Witness ==
    /\ TheShadow.kind = "fan"
    /\ last_call.op = "_on_state"
    /\ last_call.arg.fan = FanStatus(I(3))
    /\ TheShadow.percentage = I(60)
    /\ FanOnState(TheShadow, last_call.arg) = TheShadow

\* C13: a decode changes only the fields its sub-document carries: a cct
\* sub-document without dimming leaves brightness and is_on, without
\* color_temperature leaves color_temp; an rgb sub-document leaves every
\* channel it lacks; an ir_ac sub-document leaves the preset, the mode, the
\* temperatures and the fan mode whose key it lacks.
C13_AbsentFieldsKept ==
    [][LET e == TheShadow
           after == TheShadowAfter
           doc == last_call'.arg
       IN  /\ (Calls("_update_from_payload") /\ LightType(e.config) = "cct"
                  /\ doc.cct # None) =>
                  /\ doc.cct[2].dimming = None =>
                        after.brightness = e.brightness /\ after.is_on = e.is_on
                  /\ doc.cct[2].color_temperature = None => after.color_temp = e.color_temp
           /\ (Calls("_update_from_payload") /\ LightType(e.config) = "rgb"
                  /\ doc.rgb # None) =>
                  /\ doc.rgb[2].r = None => after.rgb_color[1] = e.rgb_color[1]
                  /\ doc.rgb[2].g = None => after.rgb_color[2] = e.rgb_color[2]
                  /\ doc.rgb[2].b = None => after.rgb_color[3] = e.rgb_color[3]
           /\ (Calls("_update_from_status") /\ doc.ir_ac # None) =>
                  /\ doc.ir_ac[2].power = None => after.preset = e.preset
                  /\ doc.ir_ac[2].mode = None => after.hvac_mode = e.hvac_mode
                  /\ doc.ir_ac[2].temperature = None => after.target_temp = e.target_temp
                  /\ doc.ir_ac[2].current_temperature = None =>
                        after.current_temp = e.current_temp
                  /\ doc.ir_ac[2].fan_speed = None => after.fan_mode = e.fan_mode]_vars

\* the integer nearest to n / d, for n >= 0 and d odd (no ties)
Nearest(n, d) == (2 * n + d) \div (2 * d)

\* C14: a dimmer's turn_on with brightness b publishes dimming
\* floor(b * 100 / 255), within 1 of the rounded quotient; a status with
\* dimming d sets brightness floor(d * 255 / 100); encoding the brightness
\* decoded from d gives d - 1 or d.
C14_DimmerMapping ==
    /\ (TheShadow.kind = "light" /\ LightType(TheShadow.config) = "dimmer") =>
          /\ last_call.op = "async_turn_on" =>
                /\ Len(published) = 1
                /\ published[1].payload[2].dimming = I((TheShadow.brightness * 100) \div 255)
          /\ (last_call.op = "_update_from_payload" /\ last_call.arg.dimmer # None) =>
                TheShadow.brightness = (last_call.arg.dimmer[2].dimming[2] * 255) \div 100
    /\ \A b \in 0..255 :
          /\ Dimming(b) = (b * 100) \div 255
          /\ Dimming(b) - Nearest(b * 100, 255) \in {-1, 0, 1}
    /\ \A d \in 0..100 :
          /\ Trunc100(d * 255) \in 0..255
          /\ Dimming(Trunc100(d * 255)) \in {d - 1, d}

\* the dimmer was turned on at brightness 128 and published dimming 50
C14_Witness ==
    /\ TheShadow.kind = "light" /\ LightType(TheShadow.config) = "dimmer"
    /\ last_call.op = "async_turn_on"
    /\ last_call.arg.brightness = I(128)
    /\ published # <<>>
    /\ published[1].payload[2].dimming = I(50)

\* C15: for a cct light (min_mireds < max_mireds), turn_on at colour
\* temperature m in [min, max] publishes 100 - trunc((m - min) * 100 /
\* (max - min)), which is in 0..100; a status with color_temperature p in
\* 0..100 sets color_temp to the integer nearest max - p * (max - min) /
\* 100, which is in [min, max]; min and 100, max and 0 correspond in both
\* directions.
C15_CctMapping ==
    (TheShadow.kind = "light" /\ LightType(TheShadow.config) = "cct") =>
        LET min == TheShadow.min_mireds
            max == TheShadow.max_mireds
            m == TheShadow.color_temp
        IN  /\ min < max
            /\ m \in min..max
            /\ last_call.op = "async_turn_on" =>
                  /\ Len(published) = 1
                  /\ published[1].payload[2].color_temperature =
                         I(100 - ((m - min) * 100) \div (max - min))
                  /\ published[1].payload[2].color_temperature[2] \in 0..100
            /\ (last_call.op = "_update_from_payload" /\ last_call.arg.cct # None
                   /\ last_call.arg.cct[2].color_temperature # None) =>
                  LET p == last_call.arg.cct[2].color_temperature[2]
                      exact100 == max * 100 - p * (max - min)
                  IN  /\ 100 * m - exact100 \in -50..50
                      /\ m \in min..max
            /\ \A x \in min..max : CtScaled(x, min, max) \in 0..100
            /\ \A p \in 0..100 : MiredsOf(p, min, max) \in min..max
            /\ CtScaled(min, min, max) = 100 /\ CtScaled(max, min, max) = 0
            /\ MiredsOf(100, min, max) = min /\ MiredsOf(0, min, max) = max

\* a cct light was turned on at max_mireds and published colour temperature 0
C15_Witness ==
    /\ TheShadow.kind = "light" /\ LightType(TheShadow.config) = "cct"
    /\ last_call.op = "async_turn_on"
    /\ TheShadow.color_temp = TheShadow.max_mireds
    /\ published # <<>>
    /\ published[1].payload[2].color_temperature = I(0)

\* C16: after a turn_on, a turn_off or the decode of an rgb sub-document,
\* an rgb light is on exactly when one of its stored channels is not zero,
\* and after a turn_on with a colour the stored triple is that colour.
C16_RgbOnIffNonZero ==
    (/\ TheShadow.kind = "light" /\ LightType(TheShadow.config) = "rgb"
     /\ \/ last_call.op \in {"async_turn_on", "async_turn_off"}
        \/ last_call.op = "_update_from_payload" /\ last_call.arg.rgb # None) =>
        /\ TheShadow.is_on <=> (\E c \in 1..3 : TheShadow.rgb_color[c] # 0)
        /\ (last_call.op = "async_turn_on" /\ last_call.arg.rgb_color # None) =>
              TheShadow.rgb_color = last_call.arg.rgb_color[2]

\* the clamp of 20 * s to 0..100
Percent(s) == IF 20 * s < 0 THEN 0 ELSE IF 20 * s > 100 THEN 100 ELSE 20 * s

LevelOf(doc) ==
    IF doc.curtain # None /\ doc.curtain[2].curtain_level # None
    THEN doc.curtain[2].curtain_level
    ELSE doc.curtain_level

\* C18: a curtain's position is unset or an integer in 0..100; a message
\* addressed to the curtain that carries a curtain_level sets the position
\* to it, any other message leaves the position; is_closed is unknown while
\* the position is unset and otherwise true exactly at position 0.
C18_CurtainPosition ==
    [][(TheShadow.kind = "cover") =>
        /\ Calls("_on_message") =>
              LET doc == last_call'.arg
              IN  IF /\ doc.address # None
                     /\ StrOf(doc.address) = StrOf(TheShadow.address)
                     /\ LevelOf(doc) # None
                  THEN TheShadowAfter.position = LevelOf(doc)
                  ELSE TheShadowAfter.position = TheShadow.position
        /\ TheShadowAfter.position = None \/ TheShadowAfter.position[2] \in 0..100
        /\ is_closed(TheShadowAfter) =
              (IF TheShadowAfter.position = None THEN None
               ELSE IF TheShadowAfter.position[2] = 0 THEN B(TRUE) ELSE B(FALSE))]_vars

\* the curtain has taken level 0 from a message and is closed
C18_Witness ==
    /\ TheShadow.kind = "cover"
    /\ last_call.op = "_on_message"
    /\ last_call.arg.address = I(42)
    /\ TheShadow.position = I(0)
    /\ is_closed(TheShadow) = B(TRUE)

\* C19: set_cover_position(position = n) publishes one message, to the
\* set_position_topic or, when none is configured, the command topic; the
\* payload is the set_position_template with each "{{ position }}" replaced
\* by the decimal digits of n; the stored position stays.
C19_SetPosition ==
    [][(TheShadow.kind = "cover" /\ Calls("set_cover_position")
           /\ last_call'.arg # None) =>
        LET n == Dec(last_call'.arg[2])
            cfg == TheShadow.config
        IN  /\ TheShadowAfter = TheShadow
            /\ Len(published') = 1
            /\ published'[1].topic = (IF cfg.set_position_topic # None
                                      THEN cfg.set_position_topic ELSE cfg.command_topic)
            /\ cfg = Blind70 =>
                  published'[1].payload = S("{\"position\":" \o n \o ",\"target\":" \o n \o "}")
            /\ cfg = BlindPlain => published'[1].payload = S("go " \o n)]_vars

\* position 70 was commanded on the curtain whose template has two
\* placeholders
C19_Witness ==
    /\ TheShadow.kind = "cover"
    /\ last_call.op = "set_cover_position"
    /\ last_call.arg = I(70)
    /\ published = <<[topic |-> T(<<"x", "pos">>),
                     payload |-> S("{\"position\":70,\"target\":70}")]>>

\* a status document for the climate whose temperatures float() takes
ClimateDecodes(doc) ==
    /\ doc.address = TheShadow.address
    /\ doc.ir_ac # None
    /\ doc.ir_ac[2].temperature = None \/ doc.ir_ac[2].temperature[1] = "int"
    /\ doc.ir_ac[2].current_temperature = None
          \/ doc.ir_ac[2].current_temperature[1] = "int"

\* what C20 says of fan speed and power
SpeedAndPower(doc) ==
    /\ doc.ir_ac[2].fan_speed = I(0) => TheShadowAfter.fan_mode = "Vlow"
    /\ doc.ir_ac[2].fan_speed = I(1) => TheShadowAfter.fan_mode = "Low"
    /\ doc.ir_ac[2].fan_speed = I(2) => TheShadowAfter.fan_mode = "Med"
    /\ doc.ir_ac[2].fan_speed = I(3) => TheShadowAfter.fan_mode = "High"
    /\ doc.ir_ac[2].fan_speed = I(4) => TheShadowAfter.fan_mode = "Top"
    /\ doc.ir_ac[2].fan_speed = I(5) => TheShadowAfter.fan_mode = "Auto"
    /\ doc.ir_ac[2].power = B(TRUE) => TheShadowAfter.preset = "On"
    /\ doc.ir_ac[2].power = B(FALSE) => TheShadowAfter.preset = "Off"

SameAddress(a, b) == a # None /\ b # None /\ (a = b \/ StrOf(a) = StrOf(b))

\* C21: a status document whose address equals the shadow's, natively or
\* as strings, is applied: the curtain takes its level, the fan its speed,
\* the climate its power, and the light platform's handler accepts the
\* address for a light, whichever of the two is an integer or a string.
C21_AddressEitherType ==
    [][LET e == TheShadow
           doc == last_call'.arg
       IN  /\ (Calls("_on_message") /\ SameAddress(doc.address, e.address)
                  /\ LevelOf(doc) # None) =>
                  TheShadowAfter.position = LevelOf(doc)
           /\ (Calls("_on_state") /\ SameAddress(doc.address, e.address)
                  /\ doc.fan # None /\ doc.fan[2].fan_speed[1] = "int") =>
                  TheShadowAfter.percentage = I(Percent(doc.fan[2].fan_speed[2]))
           /\ (Calls("_update_from_status") /\ SameAddress(doc.address, e.address)
                  /\ doc.ir_ac # None /\ doc.ir_ac[2].power # None) =>
                  TheShadowAfter.preset = (IF Truthy(doc.ir_ac[2].power) THEN "On" ELSE "Off")
           /\ e.kind = "light" =>
                  \A a \in {I(42), S("42")} :
                      SameAddress(a, e.address) => LightMatches(e, a)]_vars

\* the command methods of a light and of a fan that build a JSON document
\* (a fan's turn_on and turn_off with a preconfigured payload publish that
\* raw string instead)
JsonCommand ==
    \/ TheShadow.kind = "light" /\ last_call.op \in {"async_turn_on", "async_turn_off"}
    \/ /\ TheShadow.kind = "fan"
       /\ \/ last_call.op = "async_set_percentage"
          \/ last_call.op = "fan.async_turn_on"
                /\ (last_call.arg # None \/ ~Truthy(TheShadow.config.payload_on))
          \/ last_call.op = "fan.async_turn_off" /\ ~Truthy(TheShadow.config.payload_off)

\* C22: every JSON command of a light or a fan is one message on the
\* shadow's command topic that carries version "v1.0", the shadow's address
\* and the type tag of the shadow: dimmer, cct, rgb or switch for a light,
\* fan for a fan.
C22_CommandEnvelope ==
    JsonCommand =>
        /\ Len(published) = 1
        /\ published[1].topic = TheShadow.config.command_topic
        /\ published[1].payload[1] = "obj"
        /\ published[1].payload[2].version = S("v1.0")
        /\ SameAddress(published[1].payload[2].address, TheShadow.address)
        /\ published[1].payload[2].type =
               S(IF TheShadow.kind = "light" THEN LightType(TheShadow.config) ELSE "fan")

\* the command methods of the shadows
CommandOps == {"async_turn_on", "async_turn_off", "set_cover_position",
               "async_set_percentage", "fan.async_turn_on", "fan.async_turn_off"}

\* C26: no command of a shadow ends by raising to its caller, whatever the
\* shadow's address or unique id is.
C26_CommandsNeverRaise ==
    last_call.op \in CommandOps => ~last_call.raised

\* C27: a payload that is not valid JSON is dropped: the fan's and the
\* curtain's topic callbacks leave every field of every shadow, the
\* availability flag included, as it was.
C27_InvalidJsonDropped ==
    [][((Calls("_on_state") \/ Calls("_on_message")) /\ last_call'.arg = NotJson) =>
        entities' = entities]_vars

(***************************************************************************)
(* Threads.                                                                *)
(***************************************************************************)
\* paho calls a callback on the MQTT thread with the message in delivery
MqttStep == mqtt_thread.pending # <<>> /\ mqtt_thread' # mqtt_thread

\* C28: no step of the MQTT thread writes a field of a shadow: the decode
\* of an inbound message runs as a deferred call on the host loop.
C28_DecodesOnLoop ==
    [][MqttStep => \A i \in 1..Len(entities) : entities'[i] = entities[i]]_vars

\* C29: no step of the MQTT thread constructs a shadow or inserts one into
\* the shared devices mapping or the list of scenes: a discovery message is
\* materialized by deferred calls on the host loop.
C29_MaterializedOnLoop ==
    [][MqttStep => /\ Len(entities') = Len(entities)
                   /\ devices' = devices
                   /\ scenes' = scenes]_vars

(***************************************************************************)
(* Specification: the connection.  The entry forwarded to PLATFORMS, the   *)
(* broker accepting or refusing the connection several times, the          *)
(* forwarding of the platforms raising.                                    *)
(***************************************************************************)
\* connect notifications of one session of this specification
MaxReconnects == 3

\* messages of one session of this specification
MaxConnMsgs == 1

\* reason codes of a CONNACK: accepted, not authorised
ReasonCodes == {0, 5}

InitConnect == InitWith(PLATFORMS)

NextConnect ==
    \/ ConnectOk
    \/ ConnectFails
    \/ SetupLight
    \/ SetupCover
    \/ ForwardRaises
    \/ InitialDispatch
    \/ \E reason_code \in ReasonCodes : Connected(reason_code, MaxReconnects)
    \/ \E m \in Messages : Deliver(m[1], m[2], MaxConnMsgs)
    \/ on_discovery
    \/ on_light_discovery
    \/ on_status
    \/ on_state
    \/ RunCallback
    \/ RunAddEntities
    \/ handle_status_message
    \/ handle_state_message

SpecConnect == InitConnect /\ [][NextConnect]_vars

(***************************************************************************)
(* The connection: last will, online, re-subscription, outcome of setup.   *)
(***************************************************************************)
\* the positions of the client calls with this name
CallsNamed(name) == {i \in 1..Len(client_calls) : client_calls[i].call = name}

\* from call k up to call i there is no connect notification
SameNotification(k, i) == \A j \in k..i : client_calls[j].call # "on_connect"

\* C23: the last will "offline" (QoS 1, retained) on homeassistant/status is
\* handed to the client before the first connect attempt; on every connect
\* notification with reason code 0 "online" is published (QoS 1, retained)
\* on the same topic before any subscription is made; a notification with
\* another reason code is followed by no publish and no subscription.
C23_WillThenOnline ==
    /\ \A i \in CallsNamed("connect") : \E k \in 1..(i - 1) : client_calls[k] = WillSet
    /\ \A i \in CallsNamed("on_connect") :
            IF client_calls[i].rc = 0
            THEN i < Len(client_calls) /\ client_calls[i + 1] = Online
            ELSE i = Len(client_calls) \/ client_calls[i + 1].call = "on_connect"
    /\ \A i \in CallsNamed("subscribe") \cup CallsNamed("message_callback_add") :
            \E k \in 1..(i - 1) : client_calls[k] = Online /\ SameNotification(k, i)
    /\ \A i \in CallsNamed("publish") :
            client_calls[i] = Online /\ client_calls[i - 1] = Notified(0)

\* the broker has refused the connection once and accepted it twice
C23_Witness ==
    /\ \E i \in CallsNamed("on_connect") : client_calls[i].rc # 0
    /\ connects = 2
    /\ status_topic = "online"

\* the callbacks of __init__.py in a sequence of paho callbacks
Central(callbacks) ==
    {i \in 1..Len(callbacks) : callbacks[i][1] \in {"on_discovery", "on_status"}}

C25_SetupOutcome ==
    [][/\ setup_pc' = "failed" =>
            /\ setup_pc = "connect"
            /\ platforms' = PLATFORMS
            /\ msg_callbacks' = <<>>
            /\ loop_queue' = <<>>
            /\ scheduled_calls' = <<>>
       /\ setup_pc = "forward" => setup_pc' \in {"forward", "done"}
       /\ setup_pc = "done" => setup_pc' = "done"]_vars

\* forwarding raised before any platform was set up, and the setup returned True
C25_Witness ==
    /\ setup_pc = "done"
    /\ ~DictHas(msg_callbacks, KindFilter("light"))
    /\ cover_callbacks = <<>>

(***************************************************************************)
(* The closing dispatch of async_setup_entry.                              *)
(***************************************************************************)
\* async_setup_entry dispatches the stored documents and returns True
ClosingDispatch == setup_pc = "forward" /\ setup_pc' = "done"

\* the deferred calls a step of async_setup_entry has added
AddedBySetup == SubSeq(loop_queue', Len(loop_queue) + 1, Len(loop_queue'))

\* the list the order cover > climate > fan > light > other gives a document
ListByPriority(doc) ==
    IF doc.device_class \in {S("cover"), S("curtain")} THEN cover_callbacks
    ELSE IF doc.mode_state_topic # None \/ doc.temperature_command_topic # None
         THEN climate_callbacks
    ELSE IF doc.fan_modes # None THEN fan_callbacks
    ELSE IF doc.state_topic # None \/ doc.command_topic # None \/ doc.unique_id # None
         THEN light_callbacks
    ELSE other_callbacks

RECURSIVE CallsByPriority(_)
CallsByPriority(docs) ==
    IF docs = <<>> THEN <<>>
    ELSE CallbackCalls(ListByPriority(Head(docs)), Head(docs)) \o CallsByPriority(Tail(docs))

\* C30: the closing dispatch schedules, for each stored document in turn,
\* the callbacks of the one list chosen by the first matching test in the
\* order cover, climate, fan, light, other, and no other callback, also
\* when the chosen list is empty.
C30_ClosingDispatchByPriority ==
    [][ClosingDispatch =>
        AddedBySetup = CallsByPriority(DictValues(discovered_payloads))]_vars

(***************************************************************************)
(* Specification: a status before its shadow.  The entry forwarded to      *)
(* PLATFORMS; a lamp and a blind with address 42.  The first message of a  *)
(* session is a status for 42 or a status that is not JSON; the discovery  *)
(* and status messages that follow come in any order.                      *)
(***************************************************************************)
\* messages of one session of this specification
MaxHealMsgs == 3

Dimming50 == [BaseDoc EXCEPT !.address = I(42), !.dimmer = Dimmer(50)]
Level70 == [BaseDoc EXCEPT !.address = I(42), !.curtain = Obj([curtain_level |-> I(70)])]

\* status messages that arrive before any discovery message
EarlyMessages ==
    {<<NodeTopic, Dimming50>>,
     <<NodeTopic, Level70>>,
     <<NodeTopic, NotJson>>}

HealMessages ==
    {<<DiscoveryTopic("light", "42"), Lamp>>,
     <<DiscoveryTopic("cover", "42"), Blind>>,
     <<NodeTopic, Dimming50>>,
     <<NodeTopic, Level70>>}

InitHeal == InitWith(PLATFORMS)

\* the first message of the session: a status
FirstStatus == \E m \in EarlyMessages : delivered = 0 /\ Deliver(m[1], m[2], MaxHealMsgs)

\* a later message of the session
LaterMessage == \E m \in HealMessages : delivered >= 1 /\ Deliver(m[1], m[2], MaxHealMsgs)

NextHeal ==
    \/ ConnectOk
    \/ ConnectFails
    \/ SetupLight
    \/ SetupCover
    \/ InitialDispatch
    \/ on_connect
    \/ FirstStatus
    \/ LaterMessage
    \/ on_discovery
    \/ on_light_discovery
    \/ on_status
    \/ on_state
    \/ _on_message
    \/ RunCallback
    \/ RunAddEntities
    \/ handle_status_message
    \/ handle_state_message

SpecHeal == InitHeal /\ [][NextHeal]_vars

\* the curtains constructed so far
Curtains == {i \in 1..Len(entities) : entities[i].kind = "cover"}

\* C31: the first status of a session comes before any shadow and is
\* dropped.  Once the shadow of address 42 is there, a well-formed status
\* for 42 that arrives is routed to it and leaves its state in it: a lamp
\* with the host takes dimming 50 as brightness 127 and on, in the light
\* platform's handler or by the update the router schedules for it; when
\* a curtain has been constructed, a status on its topic is handed to a
\* curtain, which takes level 70 as its position.
C31_DroppedStatusHeals ==
    [][/\ (LoopStep /\ Head(loop_queue).op = "status" /\ Head(loop_queue).doc = Dimming50
                /\ Light42 \in host_entities) =>
              \/ /\ entities'[Light42].brightness = 127
                 /\ entities'[Light42].is_on
              \/ AddedByLoop = <<[op |-> "update", fn |-> "_update_from_payload",
                                  ent |-> Light42, doc |-> Dimming50]>>
       /\ (delivered' > delivered /\ Curtains # {} /\ mqtt_thread'.msg.doc = Level70) =>
              \E k \in 1..Len(mqtt_thread'.pending) : \E i \in Curtains :
                  mqtt_thread'.pending[k] = <<"_on_message", i>>
       /\ (CallbackStep("_on_message") /\ mqtt_thread.msg.doc = Level70) =>
              entities'[Head(mqtt_thread.pending)[2]].position = I(70)]_vars

(***************************************************************************)
(* Specification: the kind-scoped discovery callbacks.  The platform       *)
(* modules light, switch, binary_sensor and scene set up; discovery        *)
(* documents with and without unique_id on the topic of each kind, a       *)
(* message on the state topic of a scene.                                  *)
(***************************************************************************)
\* messages of one session of this specification
MaxKindMsgs == 2

KindModules == <<"light", "switch", "binary_sensor", "scene">>

Evening == [BaseDoc EXCEPT !.unique_id = S("5"), !.name = S("Evening"),
                           !.command_topic = T(<<"x", "cmd">>), !.payload_on = S("ON"),
                           !.state_topic = T(<<"x", "scene">>)]

\* the documents without unique_id
Anonymous(doc) == [doc EXCEPT !.unique_id = None]

KindMessages ==
    {<<DiscoveryTopic("scene", "5"), Evening>>,
     <<DiscoveryTopic("scene", "0"), Anonymous(Evening)>>,
     <<DiscoveryTopic("light", "42"), Lamp>>,
     <<DiscoveryTopic("light", "0"), Anonymous(Lamp)>>,
     <<DiscoveryTopic("switch", "42"), Lamp>>,
     <<DiscoveryTopic("switch", "0"), Anonymous(Lamp)>>,
     <<DiscoveryTopic("binary_sensor", "42"), Lamp>>,
     <<DiscoveryTopic("binary_sensor", "0"), Anonymous(Lamp)>>,
     <<<<"x", "scene">>, BaseDoc>>}

InitKinds == InitWith(KindModules)

NextKinds ==
    \/ ConnectOk
    \/ ConnectFails
    \/ SetupLight
    \/ SetupSwitch
    \/ SetupBinarySensor
    \/ SetupScene
    \/ InitialDispatch
    \/ on_connect
    \/ \E m \in KindMessages : Deliver(m[1], m[2], MaxKindMsgs)
    \/ on_discovery
    \/ on_light_discovery
    \/ on_switch_discovery
    \/ on_bs_discovery
    \/ on_message
    \/ _on_state_message
    \/ RunAddEntities

SpecKinds == InitKinds /\ [][NextKinds]_vars

\* the scenes of the scene platform's list discovered with this unique_id
ScenesOf(uid) == {i \in 1..Len(scenes) : entities[scenes[i]].config.unique_id = uid}

\* the scenes with this unique_id handed, or waiting to be handed, to
\* async_add_entities
ScenesAdded(uid) ==
    {e \in host_entities : entities[e].kind = "scene" /\ entities[e].config.unique_id = uid}
    \cup {loop_queue[k].ent : k \in {k \in 1..Len(loop_queue) :
                /\ loop_queue[k].op = "add_entities"
                /\ entities[loop_queue[k].ent].kind = "scene"
                /\ entities[loop_queue[k].ent].config.unique_id = uid}}

\* C32: whatever scene discovery messages have been handled, the scenes
\* list holds at most one scene per discovered unique_id and at most one
\* scene per unique_id is handed to async_add_entities.
C32_OneScenePerId ==
    /\ Cardinality(ScenesOf(S("5"))) <= 1
    /\ Cardinality(ScenesAdded(S("5"))) <= 1

\* C33: a kind-scoped discovery callback called with a document without
\* unique_id constructs no shadow and adds nothing to devices or scenes.
C33_NoIdNoShadow ==
    [][((CallbackStep("on_light_discovery") \/ CallbackStep("on_switch_discovery")
            \/ CallbackStep("on_bs_discovery") \/ CallbackStep("on_message"))
         /\ mqtt_thread.msg.doc.unique_id = None) =>
        /\ entities' = entities
        /\ devices' = devices
        /\ scenes' = scenes]_vars

(***************************************************************************)
(* Specification: the light platform's status handler.  The light and      *)
(* switch modules have discovered four lights and a switch, all with the   *)
(* host; on_state is the callback of the status filters.  Status messages  *)
(* for their addresses arrive.                                             *)
(***************************************************************************)
\* messages of one session of this specification
MaxLightMsgs == 2

\* a dimmer with unique_id "42" (address 42), a switch-type light with the
\* same address given as a string, a dimmer named by a string, a dimmer
\* with address 7, and a switch of switch.py
LightConfigs ==
    <<Lamp,
      [Lamp EXCEPT !.unique_id = S("43"), !.address = S("42"), !.type = S("switch")],
      [Lamp EXCEPT !.unique_id = S("k1")],
      [Lamp EXCEPT !.unique_id = S("44"), !.address = I(7)]>>

SwitchConfig == [Lamp EXCEPT !.unique_id = S("45")]

LightAddresses == {None, I(42), S("42"), S("k1"), I(7), S("7"), I(99)}

\* status documents: a dimming, a dimming that is no number with a power,
\* a power
LightStatuses ==
    {[BaseDoc EXCEPT !.address = a, !.dimmer = Dimmer(50)] : a \in LightAddresses}
    \cup {[BaseDoc EXCEPT !.address = a, !.dimmer = Obj([dimming |-> S("x")]),
                          !.power = B(TRUE)] : a \in LightAddresses}
    \cup {[BaseDoc EXCEPT !.address = a, !.dimmer = Dimmer(0), !.power = B(FALSE)] :
                a \in LightAddresses}

\* the callbacks of the two status filters when this one was added last
StatusCallbacks(fn) == <<<<NodeFilter, <<fn, 0>>>>, <<GroupFilter, <<fn, 0>>>>>>

\* the state with the lights and the switch discovered and with the host
LightsDiscovered(table) ==
    /\ setup_pc = "done"
    /\ platforms = <<>>
    /\ discovered_payloads = <<>>
    /\ entities_by_unique_id = <<>>
    /\ entities_by_address = <<>>
    /\ entities = [i \in 1..4 |-> LytivaLight(LightConfigs[i])] \o <<LytivaSwitch(SwitchConfig)>>
    /\ devices = [i \in 1..4 |-> <<Str(LightConfigs[i].unique_id), i>>]
                    \o <<<<SwitchConfig.unique_id, 5>>>>
    /\ cover_callbacks = <<>>
    /\ climate_callbacks = <<>>
    /\ fan_callbacks = <<>>
    /\ light_callbacks = <<>>
    /\ other_callbacks = <<>>
    /\ scenes = <<>>
    /\ msg_callbacks = table
    /\ connects = 1
    /\ client_calls = SetupCalls(TRUE) \o <<Notified(0)>> \o OnConnectCalls
    /\ status_topic = "online"
    /\ mqtt_thread = Idle
    /\ delivered = 0
    /\ loop_queue = <<>>
    /\ host_entities = 1..5
    /\ scheduled_calls = <<>>
    /\ unmatched_logged = 0
    /\ published = <<>>
    /\ last_call = NoCall

InitLights == LightsDiscovered(StatusCallbacks("on_state"))

NextLights ==
    \/ \E doc \in LightStatuses : Deliver(NodeTopic, doc, MaxLightMsgs)
    \/ on_state
    \/ handle_state_message

SpecLights == InitLights /\ [][NextLights]_vars

\* the address of a status and the address of a shadow are equal as
\* integers or as strings
AddressMatches(e, address) ==
    \/ PyInt(address) # None /\ IsInt(e.address) /\ e.address = PyInt(address)
    \/ StrOf(e.address) = StrOf(address)

\* the lights in devices
DeviceLights == {i \in 1..Len(entities) :
                    entities[i].kind = "light" /\ \E k \in 1..Len(devices) : devices[k][2] = i}

\* C34: the light platform's handler applies a status with an address to
\* every light in devices whose address matches, once, whether or not the
\* update of another matching light met an exception, and changes no
\* other shadow.
C34_EveryMatchingLight ==
    [][(LightHandlerStep /\ Head(loop_queue).doc.address # None) =>
        LET doc == Head(loop_queue).doc
        IN  \A i \in 1..Len(entities) :
                entities'[i] = IF i \in DeviceLights /\ AddressMatches(entities[i], doc.address)
                               THEN UpdateFromPayload(entities[i], doc)
                               ELSE entities[i]]_vars

\* the dimmer 42 has met its exception and kept its state, and the
\* switch-type light of the same address, later in devices, is on
C34_Witness ==
    /\ entities[2].is_on
    /\ ~entities[1].is_on
    /\ entities[2].address = entities[1].address

(***************************************************************************)
(* Specification: two status messages in a row.  The lights of the         *)
(* specification above, with on_state or on_status on the status filters;  *)
(* the first message of a session reports dimming 50 for address 7, the   *)
(* messages after it dimming 0.  Shadows with an address of their own      *)
(* enter the router's indices as the design describes.                     *)
(***************************************************************************)
\* messages of one session of this specification
MaxOrderMsgs == 2

Reports50 == {[BaseDoc EXCEPT !.address = a, !.dimmer = Dimmer(50)] : a \in {I(7), S("7")}}
Reports0 == {[BaseDoc EXCEPT !.address = a, !.dimmer = Dimmer(0)] : a \in {I(7), S("7")}}

InitOrder == \E fn \in {"on_state", "on_status"} : LightsDiscovered(StatusCallbacks(fn))

\* the shadows whose address no other shadow has
OwnAddress == {e \in 1..Len(entities) :
                 \A o \in 1..Len(entities) : entities[o].address = entities[e].address => o = e}

\* m1: the first status of the session
FirstReport == \E doc \in Reports50 : delivered = 0 /\ Deliver(NodeTopic, doc, MaxOrderMsgs)

\* m2: a status after the first
LaterReport == \E doc \in Reports0 : delivered >= 1 /\ Deliver(NodeTopic, doc, MaxOrderMsgs)

NextOrder ==
    \/ FirstReport
    \/ LaterReport
    \/ on_state
    \/ on_status
    \/ handle_state_message
    \/ handle_status_message
    \/ RunUpdate
    \/ \E e \in OwnAddress :
            \E key \in {entities[e].address, Str(entities[e].address)} : RegisterShadow(e, key)

SpecOrder == InitOrder /\ [][NextOrder]_vars

\* the dimmer 7 shows the first report, the later report, no report
ShowsFirst(e) == e.brightness = 127 /\ e.is_on
ShowsLater(e) == e.brightness = 0 /\ ~e.is_on
ShowsNone(e) == e.brightness = 255 /\ ~e.is_on

\* every message of the session is delivered and handled
Settled == delivered = MaxOrderMsgs /\ mqtt_thread = Idle /\ loop_queue = <<>>

LastDimming == IF published = <<>> THEN None ELSE published[Len(published)].payload[2].dimming

\* C36: for a dimmer or cct light, after any sequence of turn_on, turn_off
\* and status decodes, is_on implies a stored brightness above 0 and a last
\* published dimming above 0.
C36_OnMeansLit ==
    (/\ TheShadow.kind = "light"
     /\ LightType(TheShadow.config) \in {"dimmer", "cct"}
     /\ TheShadow.is_on) =>
        /\ TheShadow.brightness > 0
        /\ LastDimming # None => LastDimming[2] > 0

\* the light platform is set up: its callbacks are registered
LightSetUp == DictHas(msg_callbacks, KindFilter("light"))

\* a status message is handed to the callbacks paho found for it
StatusDelivered ==
    /\ delivered' > delivered
    /\ \/ TopicMatches(NodeFilter, mqtt_thread'.msg.topic)
       \/ TopicMatches(GroupFilter, mqtt_thread'.msg.topic)

\* C37: under every order of connect notifications and light-platform
\* setup, a status message delivered once both have happened is processed
\* by the central router's on_status as well as by the light platform's
\* on_state.
C37_RouterAndLightHandler ==
    [][(StatusDelivered /\ LightSetUp) =>
          {"on_status", "on_state"} \subseteq
              {mqtt_thread'.pending[i][1] : i \in 1..Len(mqtt_thread'.pending)}]_vars

(***************************************************************************)
(* The commands of the climate shadow of climate.py.                       *)
(***************************************************************************)
\* a temperature with a fraction, counted in halves of a degree
F(h) == <<"float", h>>

\* twice a number: the order of integers and floats
Twice(x) == IF IsInt(x) THEN 2 * x[2] ELSE x[2]

\* Python's min(a, b) and max(a, b): a unless b is strictly smaller (larger)
PyMin(a, b) == IF Twice(b) < Twice(a) THEN b ELSE a
PyMax(a, b) == IF Twice(b) > Twice(a) THEN b ELSE a

\* int(x) of a number: truncation toward zero
IntPart(x) == IF IsInt(x) THEN x[2] ELSE TruncDiv(x[2], 2)

\* payload.get("min_temp", 16) and payload.get("max_temp", 30)
MinTemp(e) == IF e.config.min_temp = None THEN I(16) ELSE e.config.min_temp
MaxTemp(e) == IF e.config.max_temp = None THEN I(30) ELSE e.config.max_temp

\* the clamp without its lower limit
Clamped_NoFloor(e, temp) == PyMin(MaxTemp(e), temp)

\* max(self._min_temp, min(self._max_temp, temp))
Clamped(e, temp) == PyMax(MinTemp(e), PyMin(MaxTemp(e), temp))

\* the expressions of a command template
JinjaValue == <<"value", "{{ value }}">>
JinjaMapped == <<"mapped", "{{ mapping[value] }}">>

RECURSIVE Render(_, _, _)
\* Template(t).render(value=..., mapping=...): value is the text of the
\* value, mapped the text of mapping[value] (empty without a mapping)
Render(segs, value, mapped) ==
    IF segs = <<>> THEN ""
    ELSE (IF Head(segs) = JinjaValue THEN value
          ELSE IF Head(segs) = JinjaMapped THEN mapped
          ELSE Head(segs)[2]) \o Render(Tail(segs), value, mapped)

\* the command is configured: its template and its topic are truthy
Configured(template, topic) == Truthy(template) /\ Truthy(topic)

\* x in list
In(x, list) == \E k \in 1..Len(list) : list[k] = x

\* {fm: i + 1 for i, fm in enumerate(list)}[x]
PlaceOf(x, list) == CHOOSE k \in 1..Len(list) :
                        list[k] = x /\ \A j \in (k + 1)..Len(list) : list[j] # x

\* async_set_hvac_mode gets past its tests: the command is configured and
\* REVERSE_HVAC knows the mode
ModeGoes(e, hvac_mode) ==
    /\ Configured(e.config.mode_command_template, e.config.mode_command_topic)
    /\ hvac_mode \in HVAC_MAP

\* LytivaClimateEntity.async_set_hvac_mode(hvac_mode)
async_set_hvac_mode(i, hvac_mode) ==
    LET e == entities[i]
    IN  /\ e.kind = "climate"
        /\ IF ModeGoes(e, hvac_mode)
           THEN Called("async_set_hvac_mode", i, S(hvac_mode),
                       [e EXCEPT !.hvac_mode = hvac_mode],
                       Publish(e.config.mode_command_topic,
                               S(Render(e.config.mode_command_template[2],
                                        hvac_mode, hvac_mode))))
           ELSE Called("async_set_hvac_mode", i, S(hvac_mode), e, <<>>)

\* async_set_temperature gets past its test
TemperatureGoes(e, temp) ==
    /\ temp # None
    /\ Configured(e.config.temperature_command_template, e.config.temperature_command_topic)

\* what async_set_temperature hands to mqtt.publish
TemperatureSent(e, temp) ==
    IF TemperatureGoes(e, temp)
    THEN Publish(e.config.temperature_command_topic,
                 S(Render(e.config.temperature_command_template[2],
                          StrOf(I(IntPart(Clamped(e, temp)))), "")))
    ELSE <<>>

\* the shadow after async_set_temperature
TemperatureSet(e, temp) ==
    IF TemperatureGoes(e, temp) THEN [e EXCEPT !.target_temp = Clamped(e, temp)] ELSE e

\* LytivaClimateEntity.async_set_temperature(temperature=temp)
async_set_temperature(i, temp) ==
    /\ entities[i].kind = "climate"
    /\ Called("async_set_temperature", i, temp, TemperatureSet(entities[i], temp),
              TemperatureSent(entities[i], temp))

\* the test of the supported fan modes left out
FanModeGoes_Unchecked(e, fan_mode) ==
    Configured(e.config.fan_mode_command_template, e.config.fan_mode_command_topic)

\* async_set_fan_mode gets past its tests
FanModeGoes(e, fan_mode) ==
    /\ Configured(e.config.fan_mode_command_template, e.config.fan_mode_command_topic)
    /\ In(fan_mode, ClimateFanModes(e.config))

\* LytivaClimateEntity.async_set_fan_mode(fan_mode)
async_set_fan_mode(i, fan_mode) ==
    LET e == entities[i]
        modes == ClimateFanModes(e.config)
    IN  /\ e.kind = "climate"
        /\ IF FanModeGoes(e, fan_mode)
           THEN Called("async_set_fan_mode", i, S(fan_mode),
                       [e EXCEPT !.fan_mode = fan_mode],
                       Publish(e.config.fan_mode_command_topic,
                               S(Render(e.config.fan_mode_command_template[2], fan_mode,
                                        IF In(fan_mode, modes)
                                        THEN Dec(PlaceOf(fan_mode, modes)) ELSE ""))))
           ELSE Called("async_set_fan_mode", i, S(fan_mode), e, <<>>)

\* async_set_preset_mode gets past its tests
PresetGoes(e, preset_mode) ==
    /\ Configured(e.config.preset_mode_command_template, e.config.preset_mode_command_topic)
    /\ In(preset_mode, ClimatePresetModes(e.config))

\* LytivaClimateEntity.async_set_preset_mode(preset_mode)
async_set_preset_mode(i, preset_mode) ==
    LET e == entities[i]
    IN  /\ e.kind = "climate"
        /\ IF PresetGoes(e, preset_mode)
           THEN Called("async_set_preset_mode", i, S(preset_mode),
                       [e EXCEPT !.preset = preset_mode],
                       Publish(e.config.preset_mode_command_topic,
                               S(Render(e.config.preset_mode_command_template[2],
                                        preset_mode, ""))))
           ELSE Called("async_set_preset_mode", i, S(preset_mode), e, <<>>)

(***************************************************************************)
(* Specification: one climate shadow and its commands.                     *)
(***************************************************************************)
\* a thermostat with every command configured
ThermostatFull ==
    [Thermostat EXCEPT
        !.mode_command_topic = T(<<"x", "mode", "set">>),
        !.mode_command_template = Template(<<Text("{\"mode\":\""), JinjaValue, Text("\"}")>>),
        !.temperature_command_topic = T(<<"x", "temp", "set">>),
        !.temperature_command_template =
            Template(<<Text("{\"temperature\":"), JinjaValue, Text("}")>>),
        !.fan_mode_command_topic = T(<<"x", "fan", "set">>),
        !.fan_mode_command_template =
            Template(<<Text("{\"fan\":"), JinjaMapped, Text(",\"name\":\""), JinjaValue,
                       Text("\"}")>>),
        !.preset_mode_command_topic = T(<<"x", "preset", "set">>),
        !.preset_mode_command_template = Template(<<Text("preset "), JinjaValue>>)]

\* limits and lists of its own: 18 to 25.5 degrees
ThermostatNarrow ==
    [ThermostatFull EXCEPT !.min_temp = I(18), !.max_temp = F(51),
                           !.fan_modes = <<"list", <<"quiet", "turbo">>>>,
                           !.preset_modes = <<"list", <<"eco", "Off">>>>]

\* topics without templates (one of them empty), templates without topics
ThermostatNoTemplates ==
    [ThermostatFull EXCEPT !.mode_command_template = None,
                           !.temperature_command_template = S(""),
                           !.fan_mode_command_template = None,
                           !.preset_mode_command_template = None]
ThermostatNoTopics ==
    [ThermostatFull EXCEPT !.mode_command_topic = None,
                           !.temperature_command_topic = None,
                           !.fan_mode_command_topic = None,
                           !.preset_mode_command_topic = None]

ClimateShadows ==
    {LytivaClimateEntity(c) :
        c \in {ThermostatFull, ThermostatNarrow, ThermostatNoTemplates, ThermostatNoTopics,
               Thermostat}}

\* temperatures the host asks for: none, integers and halves below, in and
\* above the limits
Temperatures == {None, I(10), I(16), I(22), I(30), I(35), F(31), F(45), F(51), F(52), F(61)}

\* the fan modes and presets the host asks for, supported by some shadow or
\* by none
FanModeNames == {"low", "auto", "quiet", "turbo", "max"}
PresetNames == {"On", "Off", "eco", "boost"}

InitClimate == OneShadow(ClimateShadows)

NextClimate ==
    \/ \E hvac_mode \in HVAC_MAP : async_set_hvac_mode(1, hvac_mode)
    \/ \E temp \in Temperatures : async_set_temperature(1, temp)
    \/ \E fan_mode \in FanModeNames : async_set_fan_mode(1, fan_mode)
    \/ \E preset_mode \in PresetNames : async_set_preset_mode(1, preset_mode)

SpecClimate == InitClimate /\ [][NextClimate]_vars

\* the value between lo and hi nearest to v
Within(lo, hi, v) ==
    IF Twice(v) < Twice(lo) THEN lo ELSE IF Twice(v) > Twice(hi) THEN hi ELSE v

\* the text of the integer part of a temperature
Whole(v) == StrOf(I(IF IsInt(v) THEN v[2] ELSE IF v[2] >= 0 THEN v[2] \div 2
                                                ELSE -((-v[2]) \div 2)))

\* C38: set_temperature with a temperature, a command template and a topic
\* clamps the temperature into [min_temp, max_temp]: one message carries
\* the integer part of the clamped temperature, the target temperature is
\* the clamped temperature and lies within the limits.
C38_TemperatureClamped ==
    [][(/\ last_call'.op = "async_set_temperature"
        /\ last_call'.arg # None
        /\ Truthy(TheShadow.config.temperature_command_template)
        /\ Truthy(TheShadow.config.temperature_command_topic)) =>
          LET lo == MinTemp(TheShadow)
              hi == MaxTemp(TheShadow)
              clamped == Within(lo, hi, last_call'.arg)
          IN  /\ published' =
                    <<[topic |-> TheShadow.config.temperature_command_topic,
                       payload |-> S(Render(TheShadow.config.temperature_command_template[2],
                                            Whole(clamped), ""))]>>
              /\ Twice(TheShadowAfter.target_temp) = Twice(clamped)
              /\ Twice(lo) <= Twice(TheShadowAfter.target_temp)
              /\ Twice(TheShadowAfter.target_temp) <= Twice(hi)]_vars

\* 30.5 degrees asked of the thermostat limited to 25.5: 25 is published
\* and 25.5 is the target
C38_Witness ==
    /\ last_call.op = "async_set_temperature"
    /\ last_call.arg = F(61)
    /\ TheShadow.target_temp = F(51)
    /\ published = <<[topic |-> T(<<"x", "temp", "set">>),
                      payload |-> S("{\"temperature\":25}")]>>

\* the four fields the climate commands set
ClimateFields(e) == <<e.hvac_mode, e.target_temp, e.fan_mode, e.preset>>

\* the temperature asked for, and the one within the shadow's limits
\* nearest to it
AskedFor(e, temp) == temp
AskedForWithin(e, temp) == Within(MinTemp(e), MaxTemp(e), temp)

\* a command of the climate shadow is refused: its template or topic is not
\* configured, the fan mode or preset is not supported, the temperature is
\* missing
Refused(e, op, arg) ==
    LET c == e.config
    IN  \/ op = "async_set_hvac_mode"
              /\ ~(Truthy(c.mode_command_template) /\ Truthy(c.mode_command_topic))
        \/ op = "async_set_temperature"
              /\ \/ ~(Truthy(c.temperature_command_template)
                       /\ Truthy(c.temperature_command_topic))
                 \/ arg = None
        \/ op = "async_set_fan_mode"
              /\ \/ ~(Truthy(c.fan_mode_command_template) /\ Truthy(c.fan_mode_command_topic))
                 \/ \A k \in 1..Len(ClimateFanModes(c)) : ClimateFanModes(c)[k] # arg[2]
        \/ op = "async_set_preset_mode"
              /\ \/ ~(Truthy(c.preset_mode_command_template)
                       /\ Truthy(c.preset_mode_command_topic))
                 \/ \A k \in 1..Len(ClimatePresetModes(c)) : ClimatePresetModes(c)[k] # arg[2]

\* a refused command publishes nothing and leaves the four fields; any
\* other publishes one message on the command's topic and sets the
\* command's field, the target temperature to Stored(shadow, temperature)
CommandEffect(Stored(_, _)) ==
    LET e == TheShadow
        after == TheShadowAfter
        op == last_call'.op
        arg == last_call'.arg
    IN  IF Refused(e, op, arg)
        THEN published' = <<>> /\ ClimateFields(after) = ClimateFields(e)
        ELSE /\ Len(published') = 1
             /\ op = "async_set_hvac_mode" =>
                    /\ published'[1].topic = e.config.mode_command_topic
                    /\ after.hvac_mode = arg[2]
             /\ op = "async_set_temperature" =>
                    /\ published'[1].topic = e.config.temperature_command_topic
                    /\ Twice(after.target_temp) = Twice(Stored(e, arg))
             /\ op = "async_set_fan_mode" =>
                    /\ published'[1].topic = e.config.fan_mode_command_topic
                    /\ after.fan_mode = arg[2]
             /\ op = "async_set_preset_mode" =>
                    /\ published'[1].topic = e.config.preset_mode_command_topic
                    /\ after.preset = arg[2]

\* C39: a climate command that is refused (template or topic not
\* configured, fan mode or preset not supported, temperature missing)
\* publishes nothing and leaves hvac_mode, target temperature, fan_mode and
\* preset as they were; an accepted command publishes exactly one message
\* and sets its field to the requested value.
C39_RefusedOrRequested == [][CommandEffect(AskedFor)]_vars

\* C39, amended: as above, with the target temperature set to the
\* requested temperature clamped into [min_temp, max_temp].
C39_RefusedOrClamped == [][CommandEffect(AskedForWithin)]_vars

\* the fully configured thermostat, set to cool by an accepted command,
\* refuses the fan mode "max": nothing is published, the fan mode stays
C39_Witness ==
    /\ TheShadow.config = ThermostatFull
    /\ last_call.op = "async_set_fan_mode"
    /\ last_call.arg = S("max")
    /\ published = <<>>
    /\ TheShadow.hvac_mode = "cool"
    /\ TheShadow.fan_mode = "low"
====
